---- MODULE Spec2Model ----
(***************************************************************************)
(* Structural value codec (modelos/object/encoding.py) and schema          *)
(* compatibility analyzer (modelos/object/version.py) of model-os.         *)
(*                                                                         *)
(* Python values are tagged records (field k is the runtime class), type   *)
(* hints are tagged records (field k is the typing form), and a call       *)
(* either returns a Python value or a Raise record naming the exception.   *)
(***************************************************************************)
EXTENDS Integers, Sequences, FiniteSets

\* ------------------------------------------------------------------------
\* Python runtime values
\* ------------------------------------------------------------------------
PNone == [k |-> "none"]
PBool(b) == [k |-> "bool", v |-> b]
PInt(i) == [k |-> "int", v |-> i]
\* PFloat(i) is the non-integral float i + 0.5
PFloat(i) == [k |-> "float", v |-> i]
PStr(s) == [k |-> "str", v |-> s]
\* bytes: a sequence of small integers
PBytes(bs) == [k |-> "bytes", v |-> bs]
PList(xs) == [k |-> "list", xs |-> xs]
PTuple(xs) == [k |-> "tuple", xs |-> xs]
\* dict: the items in insertion order, keys are distinct strings
PDict(items) == [k |-> "dict", items |-> items]
Item(key, val) == [key |-> key, val |-> val]
\* instance of a user class: the class name and the instance __dict__
PObj(cls, items) == [k |-> "obj", cls |-> cls, items |-> items]
\* enum member
PEnum(cls, label, value) == [k |-> "enum", cls |-> cls, label |-> label, value |-> value]
\* an exception leaving the call
Raise(exc, msg) == [k |-> "raise", exc |-> exc, msg |-> msg]

IsRaise(r) == r.k = "raise"
IsTrue(r) == r.k = "bool" /\ r.v

HasKey(items, key) == \E i \in 1..Len(items) : items[i].key = key
GetKey(items, key) == items[CHOOSE i \in 1..Len(items) : items[i].key = key].val

\* ------------------------------------------------------------------------
\* Type hints
\* ------------------------------------------------------------------------
NoneType == [k |-> "NoneType"]
int == [k |-> "prim", p |-> "int"]
str == [k |-> "prim", p |-> "str"]
float == [k |-> "prim", p |-> "float"]
bool == [k |-> "prim", p |-> "bool"]
bytes == [k |-> "prim", p |-> "bytes"]
Any == [k |-> "Any"]
DictT(kt, vt) == [k |-> "Dict", args |-> <<kt, vt>>]
ListT(e) == [k |-> "List", args |-> <<e>>]
TupleT(es) == [k |-> "Tuple", args |-> es]
\* typing.Union[...]; Optional[X] is Union[X, None]
UnionT(vs) == [k |-> "Union", args |-> vs]
OptionalT(e) == UnionT(<<e, NoneType>>)
\* Enum subclass: members are <<[label, value]>> in definition order
EnumT(name, members) == [k |-> "Enum", name |-> name, members |-> members]
\* annotated class: annots are <<[nm, typ]>> in declaration order
ClassT(name, annots) == [k |-> "class", name |-> name, annots |-> annots]
Annot(nm, typ) == [nm |-> nm, typ |-> typ]

FIRST_ORDER_PRIMITIVES == {int, str, float, bool, bytes}

get_args(t) == IF t.k \in {"Dict", "List", "Tuple", "Union"} THEN t.args ELSE <<>>
is_dict(t) == t.k = "Dict"
is_list(t) == t.k = "List"
is_tuple(t) == t.k = "Tuple"
is_union(t) == t.k = "Union"
is_enum(t) == t.k = "Enum"
is_first_order(t) == t \in FIRST_ORDER_PRIMITIVES
is_optional(t) == t.k = "Union" /\ \E i \in 1..Len(t.args) : t.args[i] = NoneType
\* hasattr(t, "__annotations__"): true of every class object (Python >= 3.10;
\* typing.Any is a class since 3.11), false of typing aliases
has_annotations(t) == t.k \in {"class", "Enum", "Any"}
\* get_type_hints(t)
get_type_hints(t) == IF t.k = "class" THEN t.annots ELSE <<>>

\* the characters of the strings the model uses: "value" and one-character strings
Chars(s) == IF s = "value" THEN <<"v", "a", "l", "u", "e">> ELSE IF s = "" THEN <<>> ELSE <<s>>

\* iter(x): what "for v in x" yields
IsIterable(x) == x.k \in {"list", "tuple", "dict", "str", "bytes"}
Iter(x) ==
    CASE x.k \in {"list", "tuple"} -> x.xs
      [] x.k = "dict" -> [i \in 1..Len(x.items) |-> PStr(x.items[i].key)]
      [] x.k = "str" -> [i \in 1..Len(Chars(x.v)) |-> PStr(Chars(x.v)[i])]
      [] x.k = "bytes" -> [i \in 1..Len(x.v) |-> PInt(x.v[i])]
      [] OTHER -> <<>>

\* the numeric value under which Python compares and hashes bool and int
NumVal(x) == IF x.k = "bool" THEN (IF x.v THEN 1 ELSE 0) ELSE x.v
\* x == y for scalars (True == 1, but 1 != 1.5 and 1 != "1")
PyEq(x, y) ==
    IF x.k \in {"bool", "int"} /\ y.k \in {"bool", "int"} THEN NumVal(x) = NumVal(y)
    ELSE x = y

\* isinstance(obj, t) for a class, a typing.Union of classes, or a typing alias
RECURSIVE IsInstanceUnion(_, _, _)
IsInstance(obj, t) ==
    CASE t.k = "prim" ->
            PBool(IF t.p = "int" THEN obj.k \in {"int", "bool"} ELSE obj.k = t.p)
      [] t.k = "NoneType" -> PBool(obj.k = "none")
      [] t.k = "class" -> PBool(obj.k = "obj" /\ obj.cls = t.name)
      [] t.k = "Enum" -> PBool(obj.k = "enum" /\ obj.cls = t.name)
      [] t.k = "Union" -> IsInstanceUnion(obj, t.args, 1)
      [] t.k = "Any" -> Raise("TypeError", "typing.Any cannot be used with isinstance()")
      [] OTHER -> Raise("TypeError", "Subscripted generics cannot be used with class and instance checks")
IsInstanceUnion(obj, args, i) ==
    IF i > Len(args) THEN PBool(FALSE)
    ELSE LET r == IF args[i].k \in {"prim", "NoneType", "class", "Enum"}
                  THEN IsInstance(obj, args[i])
                  ELSE Raise("TypeError", "issubclass() arg 2 must be a class")
         IN IF IsRaise(r) \/ IsTrue(r) THEN r ELSE IsInstanceUnion(obj, args, i + 1)

\* ------------------------------------------------------------------------
\* json_is_type_match
\* ------------------------------------------------------------------------
RECURSIVE json_is_type_match(_, _)
RECURSIVE MatchAnnots(_, _, _)
RECURSIVE MatchItems(_, _, _)
RECURSIVE MatchEach(_, _, _)
RECURSIVE MatchTuple(_, _, _)
RECURSIVE MatchUnion(_, _, _)

\* for nm, typ in annots.items(): jdict[nm] must match typ
MatchAnnots(annots, jdict, i) ==
    IF i > Len(annots) THEN PBool(TRUE)
    ELSE IF ~HasKey(jdict.items, annots[i].nm) THEN Raise("KeyError", annots[i].nm)
    ELSE LET r == json_is_type_match(annots[i].typ, GetKey(jdict.items, annots[i].nm))
         IN IF IsRaise(r) \/ ~IsTrue(r) THEN r ELSE MatchAnnots(annots, jdict, i + 1)

\* for k, v in jdict.items(): k must match args[0] and v must match args[1]
MatchItems(args, items, i) ==
    IF i > Len(items) THEN PBool(TRUE)
    ELSE LET rk == json_is_type_match(args[1], PStr(items[i].key))
         IN IF IsRaise(rk) \/ ~IsTrue(rk) THEN rk
            ELSE LET rv == json_is_type_match(args[2], items[i].val)
                 IN IF IsRaise(rv) \/ ~IsTrue(rv) THEN rv ELSE MatchItems(args, items, i + 1)

\* for v in jdict: v must match t
MatchEach(t, xs, i) ==
    IF i > Len(xs) THEN PBool(TRUE)
    ELSE LET r == json_is_type_match(t, xs[i])
         IN IF IsRaise(r) \/ ~IsTrue(r) THEN r ELSE MatchEach(t, xs, i + 1)

\* for arg in args: for v in jdict: v must match arg
MatchTuple(args, jdict, i) ==
    IF i > Len(args) THEN PBool(TRUE)
    ELSE IF ~IsIterable(jdict) THEN Raise("TypeError", "object is not iterable")
    ELSE LET r == MatchEach(args[i], Iter(jdict), 1)
         IN IF IsRaise(r) \/ ~IsTrue(r) THEN r ELSE MatchTuple(args, jdict, i + 1)

\* for arg in args: stop at the first arg that matches
MatchUnion(args, jdict, i) ==
    IF i > Len(args) THEN PBool(FALSE)
    ELSE LET r == json_is_type_match(args[i], jdict)
         IN IF IsRaise(r) \/ IsTrue(r) THEN r ELSE MatchUnion(args, jdict, i + 1)

json_is_type_match(t, jdict) ==
    IF t = NoneType THEN PBool(jdict = PNone)
    ELSE IF is_optional(t) THEN
        LET args == get_args(t)
            r == json_is_type_match(args[1], jdict)
        IN IF IsRaise(r) \/ IsTrue(r) THEN r ELSE json_is_type_match(args[2], jdict)
    ELSE IF jdict = PNone THEN PBool(t = NoneType)
    ELSE IF is_first_order(t) THEN IsInstance(jdict, t)
    ELSE IF t = Any THEN PBool(TRUE)
    ELSE IF has_annotations(t) THEN
        IF jdict.k # "dict" THEN PBool(FALSE)
        ELSE MatchAnnots(get_type_hints(t), jdict, 1)
    ELSE IF is_dict(t) THEN
        IF jdict.k # "dict" THEN Raise("AttributeError", "items")
        ELSE MatchItems(get_args(t), jdict.items, 1)
    ELSE IF is_list(t) THEN
        IF ~IsIterable(jdict) THEN Raise("TypeError", "object is not iterable")
        ELSE MatchEach(get_args(t)[1], Iter(jdict), 1)
    ELSE IF is_tuple(t) THEN MatchTuple(get_args(t), jdict, 1)
    ELSE IF is_union(t) THEN MatchUnion(get_args(t), jdict, 1)
    ELSE Raise("ValueError", "type not supported")

\* ------------------------------------------------------------------------
\* deep_isinstance
\* ------------------------------------------------------------------------
RECURSIVE DeepDictValues(_, _, _)
RECURSIVE DeepTuple(_, _, _)

\* for k, v in obj.items(): isinstance(v, args[1])
DeepDictValues(vt, items, i) ==
    IF i > Len(items) THEN PBool(TRUE)
    ELSE LET r == IsInstance(items[i].val, vt)
         IN IF IsRaise(r) \/ ~IsTrue(r) THEN r ELSE DeepDictValues(vt, items, i + 1)

\* for i, arg in enumerate(args): ...; falling out of the loop reaches "return False"
DeepTuple(obj, args, i) ==
    IF i > Len(args) THEN PBool(FALSE)
    ELSE IF args[i] = Any THEN PBool(TRUE)
    ELSE IF i > Len(obj.xs) THEN Raise("IndexError", "tuple index out of range")
    ELSE LET r == IsInstance(obj.xs[i], args[i])
         IN IF IsRaise(r) \/ ~IsTrue(r) THEN r ELSE DeepTuple(obj, args, i + 1)

deep_isinstance(obj, t) ==
    IF t = NoneType THEN PBool(obj = PNone)
    ELSE IF is_dict(t) THEN
        IF obj.k # "dict" THEN PBool(FALSE)
        ELSE IF get_args(t)[2] = Any THEN PBool(TRUE)
        ELSE DeepDictValues(get_args(t)[2], obj.items, 1)
    ELSE IF is_list(t) THEN
        IF obj.k # "list" THEN PBool(FALSE)
        ELSE IF get_args(t)[1] = Any THEN PBool(TRUE)
        ELSE IF Len(obj.xs) = 0 THEN Raise("IndexError", "list index out of range")
        ELSE IsInstance(obj.xs[1], get_args(t)[1])
    ELSE IF is_tuple(t) THEN
        IF obj.k # "tuple" THEN PBool(FALSE)
        ELSE DeepTuple(obj, get_args(t), 1)
    ELSE IF is_first_order(t) THEN IsInstance(obj, t)
    ELSE IF has_annotations(t) THEN IsInstance(obj, t)
    ELSE Raise("ValueError", "type not supported")

\* ------------------------------------------------------------------------
\* encode_any
\* ------------------------------------------------------------------------
RECURSIVE encode_any(_, _)
RECURSIVE _encode_any(_, _)
RECURSIVE EncodeItems(_, _, _, _)
RECURSIVE EncodeEach(_, _, _, _)
RECURSIVE EncodeTuple(_, _, _, _)
RECURSIVE EncodeUnion(_, _, _)
RECURSIVE EncodeAnnots(_, _, _, _)

\* for k, v in obj.items(): ret_dict[k] = _encode_any(v, args[1])
EncodeItems(vt, items, i, acc) ==
    IF i > Len(items) THEN PDict(acc)
    ELSE LET r == _encode_any(items[i].val, vt)
         IN IF IsRaise(r) THEN r
            ELSE EncodeItems(vt, items, i + 1, Append(acc, Item(items[i].key, r)))

\* for v in obj: ret_list.append(_encode_any(v, args[0]))
EncodeEach(et, xs, i, acc) ==
    IF i > Len(xs) THEN PList(acc)
    ELSE LET r == _encode_any(xs[i], et)
         IN IF IsRaise(r) THEN r ELSE EncodeEach(et, xs, i + 1, Append(acc, r))

\* for i, v in enumerate(obj): json_list.append(encode_any(v, args[i]))
EncodeTuple(args, xs, i, acc) ==
    IF i > Len(xs) THEN PList(acc)
    ELSE IF i > Len(args) THEN Raise("IndexError", "tuple index out of range")
    ELSE LET r == encode_any(xs[i], args[i])
         IN IF IsRaise(r) THEN r ELSE EncodeTuple(args, xs, i + 1, Append(acc, r))

\* for i, arg in enumerate(args): if deep_isinstance(obj, arg): return _encode_any(obj, arg)
EncodeUnion(obj, args, i) ==
    IF i > Len(args) THEN Raise("ValueError", "obj is not of any union types")
    ELSE LET r == deep_isinstance(obj, args[i])
         IN IF IsRaise(r) THEN r
            ELSE IF IsTrue(r) THEN _encode_any(obj, args[i])
            ELSE EncodeUnion(obj, args, i + 1)

\* for nm, typ in annotations.items(): ret[nm] = _encode_any(d[nm], typ)
EncodeAnnots(annots, d, i, acc) ==
    IF i > Len(annots) THEN PDict(acc)
    ELSE IF ~HasKey(d, annots[i].nm) THEN Raise("KeyError", annots[i].nm)
    ELSE LET r == _encode_any(GetKey(d, annots[i].nm), annots[i].typ)
         IN IF IsRaise(r) THEN r
            ELSE EncodeAnnots(annots, d, i + 1, Append(acc, Item(annots[i].nm, r)))

\* obj.__dict__ of a class instance or an enum member
ObjDict(obj) ==
    IF obj.k = "enum"
    THEN <<Item("_value_", obj.value), Item("_name_", PStr(obj.label))>>
    ELSE obj.items

\* an Optional taken for its inner type: the None variant is dropped
InnerArgs(args) ==
    IF Len(args) = 2 /\ args[2] = NoneType THEN <<args[1]>> ELSE args

\* "if len(args) == 2 and args[1] == NoneType: args = (args[1], args[0])"
OptionalArgs(args) ==
    IF Len(args) = 2 /\ args[2] = NoneType THEN <<args[2], args[1]>> ELSE args

_encode_any(obj, t) ==
    IF is_first_order(t) THEN obj
    ELSE IF is_dict(t) THEN
        IF is_first_order(get_args(t)[2]) THEN obj
        ELSE IF obj.k # "dict" THEN Raise("AttributeError", "items")
        ELSE EncodeItems(get_args(t)[2], obj.items, 1, <<>>)
    ELSE IF is_list(t) THEN
        IF is_first_order(get_args(t)[1]) THEN obj
        ELSE IF ~IsIterable(obj) THEN Raise("TypeError", "object is not iterable")
        ELSE EncodeEach(get_args(t)[1], Iter(obj), 1, <<>>)
    ELSE IF is_tuple(t) THEN
        IF ~IsIterable(obj) THEN Raise("TypeError", "object is not iterable")
        ELSE EncodeTuple(get_args(t), Iter(obj), 1, <<>>)
    ELSE IF t = NoneType THEN PNone
    ELSE IF is_union(t) THEN EncodeUnion(obj, OptionalArgs(get_args(t)), 1)
    ELSE IF is_enum(t) THEN
        IF obj.k = "enum" THEN obj.value
        ELSE IF obj.k = "obj" /\ HasKey(obj.items, "value") THEN GetKey(obj.items, "value")
        ELSE Raise("AttributeError", "value")
    ELSE IF t = Any THEN obj
    ELSE IF obj.k \notin {"obj", "enum"} THEN Raise("AttributeError", "__dict__")
    ELSE EncodeAnnots(get_type_hints(t), ObjDict(obj), 1, <<>>)

\* "typ = type(ret); is_first_order(typ) or is_list(typ) or is_tuple(typ) or is_enum(typ)"
\* (is_tuple(tuple) is false: tuple is neither a tuple instance nor has __origin__)
NeedsEnvelope(ret) == ret.k \in {"int", "str", "float", "bool", "bytes", "list", "enum"}

encode_any(obj, t) ==
    LET ret == _encode_any(obj, t)
    IN IF IsRaise(ret) THEN ret
       ELSE IF NeedsEnvelope(ret) THEN PDict(<<Item("value", ret)>>)
       ELSE ret

\* ------------------------------------------------------------------------
\* decode_any
\* ------------------------------------------------------------------------
RECURSIVE decode_any(_, _)
RECURSIVE DecodeItems(_, _, _, _)
RECURSIVE DecodeEach(_, _, _, _)
RECURSIVE DecodeTuple(_, _, _, _)
RECURSIVE DecodeUnion(_, _, _)
RECURSIVE DecodeAnnots(_, _, _, _)

\* "try: if 'value' in jdict: jdict = jdict['value'] / except Exception: pass"
\* (on a str, list or bytes the subscript raises and the value is kept)
Unwrap(jdict) ==
    IF jdict.k = "dict" /\ HasKey(jdict.items, "value") THEN GetKey(jdict.items, "value")
    ELSE jdict

\* len(x)
HasLen(x) == x.k \in {"list", "tuple", "dict", "str", "bytes"}

\* for k, v in jdict.items(): ret_dict[k] = decode_any(v, args[1])
DecodeItems(vt, items, i, acc) ==
    IF i > Len(items) THEN PDict(acc)
    ELSE LET r == decode_any(items[i].val, vt)
         IN IF IsRaise(r) THEN r
            ELSE DecodeItems(vt, items, i + 1, Append(acc, Item(items[i].key, r)))

\* for v in jdict: ret_list.append(decode_any(v, args[0]))
DecodeEach(et, xs, i, acc) ==
    IF i > Len(xs) THEN PList(acc)
    ELSE LET r == decode_any(xs[i], et)
         IN IF IsRaise(r) THEN r ELSE DecodeEach(et, xs, i + 1, Append(acc, r))

\* for i, v in enumerate(jdict): ret_tuple = ret_tuple + (decode_any(v, args[i]),)
DecodeTuple(args, xs, i, acc) ==
    IF i > Len(xs) THEN PTuple(acc)
    ELSE LET r == decode_any(xs[i], args[i])
         IN IF IsRaise(r) THEN r ELSE DecodeTuple(args, xs, i + 1, Append(acc, r))

\* for i, arg in enumerate(args): if json_is_type_match(arg, jdict): return decode_any(jdict, arg)
DecodeUnion(jdict, args, i) ==
    IF i > Len(args) THEN Raise("ValueError", "No type matched JSON")
    ELSE LET r == json_is_type_match(args[i], jdict)
         IN IF IsRaise(r) THEN r
            ELSE IF IsTrue(r) THEN decode_any(jdict, args[i])
            ELSE DecodeUnion(jdict, args, i + 1)

\* for k, v in jdict.items(): setattr(ret_obj, k, decode_any(v, annots[k]))
DecodeAnnots(t, items, i, acc) ==
    IF i > Len(items) THEN PObj(t.name, acc)
    ELSE LET annots == get_type_hints(t)
         IN IF \A n \in 1..Len(annots) : annots[n].nm # items[i].key
            THEN Raise("KeyError", items[i].key)
            ELSE LET typ == annots[CHOOSE n \in 1..Len(annots) : annots[n].nm = items[i].key].typ
                     r == decode_any(items[i].val, typ)
                 IN IF IsRaise(r) THEN r
                    ELSE DecodeAnnots(t, items, i + 1, Append(acc, Item(items[i].key, r)))

\* t[jdict]: the member whose name is jdict
EnumItem(t, jdict) ==
    IF jdict.k = "str" /\ \E n \in 1..Len(t.members) : t.members[n].label = jdict.v
    THEN LET m == t.members[CHOOSE n \in 1..Len(t.members) : t.members[n].label = jdict.v]
         IN PEnum(t.name, m.label, m.value)
    ELSE Raise("KeyError", "name")

\* t(jdict): a member of t itself, or the member whose value equals jdict
EnumCall(t, jdict) ==
    IF jdict.k = "enum" /\ jdict.cls = t.name THEN jdict
    ELSE IF \E n \in 1..Len(t.members) : PyEq(t.members[n].value, jdict)
    THEN LET m == t.members[CHOOSE n \in 1..Len(t.members) : PyEq(t.members[n].value, jdict)]
         IN PEnum(t.name, m.label, m.value)
    ELSE Raise("ValueError", "is not a valid enum value")

decode_any(jdict0, t) ==
    LET jdict == Unwrap(jdict0)
    IN IF is_first_order(t) THEN jdict
       ELSE IF t = NoneType THEN
           IF jdict # PNone THEN Raise("ValueError", "Expected None") ELSE PNone
       ELSE IF is_dict(t) THEN
           IF is_first_order(get_args(t)[2]) THEN jdict
           ELSE IF jdict.k # "dict" THEN Raise("AttributeError", "items")
           ELSE DecodeItems(get_args(t)[2], jdict.items, 1, <<>>)
       ELSE IF is_list(t) THEN
           IF is_first_order(get_args(t)[1]) THEN jdict
           ELSE IF ~IsIterable(jdict) THEN Raise("TypeError", "object is not iterable")
           ELSE DecodeEach(get_args(t)[1], Iter(jdict), 1, <<>>)
       ELSE IF is_tuple(t) THEN
           IF ~HasLen(jdict) THEN Raise("TypeError", "object has no len()")
           ELSE IF Len(Iter(jdict)) # Len(get_args(t))
                THEN Raise("ValueError", "Type given does not have enough args for object")
           ELSE DecodeTuple(get_args(t), Iter(jdict), 1, <<>>)
       ELSE IF is_union(t) THEN DecodeUnion(jdict, OptionalArgs(get_args(t)), 1)
       ELSE IF t = Any THEN jdict
       ELSE IF is_enum(t) THEN EnumCall(t, jdict)
       ELSE IF jdict.k # "dict" THEN Raise("AttributeError", "items")
       ELSE DecodeAnnots(t, jdict.items, 1, <<>>)

\* ------------------------------------------------------------------------
\* VersionBump, merge_bump (modelos/util/version.py)
\* ------------------------------------------------------------------------
NONE == 0
PATCH == 1
MINOR == 2
MAJOR == 3
VersionBump(v) == [k |-> "VersionBump", v |-> v]

\* a merge that keeps the bump of the last check
last_bump(old_bump, new_bump) == new_bump

merge_bump(old_bump, new_bump) == IF new_bump.v > old_bump.v THEN new_bump ELSE old_bump

\* ------------------------------------------------------------------------
\* calc_component_bump (modelos/object/version.py)
\* A schema is a function from its keys to their values ("key in schema" is
\* key \in DOMAIN schema); "properties" is the sequence of <<[nm, sch]>> in
\* dict order, "required" a sequence of names.
\* ------------------------------------------------------------------------
FIRST_ORDER_SCHEMA == {"string", "number", "boolean"}

Has(schema, key) == key \in DOMAIN schema
Prop(nm, sch) == [nm |-> nm, sch |-> sch]
HasProp(props, nm) == \E i \in 1..Len(props) : props[i].nm = nm
GetProp(props, nm) == props[CHOOSE i \in 1..Len(props) : props[i].nm = nm].sch
InSeq(x, xs) == \E i \in 1..Len(xs) : xs[i] = x

RECURSIVE calc_component_bump(_, _, _)
RECURSIVE OldPropsLoop(_, _, _, _)
RECURSIVE NewPropsLoop(_, _, _, _)
RECURSIVE OldRequiredLoop(_, _, _, _)
RECURSIVE NewRequiredLoop(_, _, _, _)
RECURSIVE PrefixItemsLoop(_, _, _, _)

\* lines 159-179, then the final "return current_bump"
AdditionalPropertiesStep(old_schema, new_schema, current_bump) ==
    IF Has(old_schema, "additionalProperties") THEN
        IF ~Has(new_schema, "additionalProperties") THEN VersionBump(MAJOR)
        ELSE LET r == calc_component_bump(old_schema["additionalProperties"],
                                          new_schema["additionalProperties"], current_bump)
             IN IF IsRaise(r) THEN r ELSE merge_bump(current_bump, r)
    ELSE current_bump

\* lines 151-157: for req in new_schema["required"]
NewRequiredLoop(old_schema, new_schema, i, current_bump) ==
    IF i > Len(new_schema["required"])
    THEN AdditionalPropertiesStep(old_schema, new_schema, current_bump)
    ELSE IF ~InSeq(new_schema["required"][i], old_schema["required"]) THEN VersionBump(MAJOR)
    ELSE NewRequiredLoop(old_schema, new_schema, i + 1, current_bump)

\* lines 144-157
NewRequiredStep(old_schema, new_schema, current_bump) ==
    IF Has(new_schema, "required") THEN
        IF ~Has(old_schema, "required") THEN VersionBump(MAJOR)
        ELSE NewRequiredLoop(old_schema, new_schema, 1, current_bump)
    ELSE AdditionalPropertiesStep(old_schema, new_schema, current_bump)

\* lines 136-142: for req in old_schema["required"]
OldRequiredLoop(old_schema, new_schema, i, current_bump) ==
    IF i > Len(old_schema["required"]) THEN NewRequiredStep(old_schema, new_schema, current_bump)
    ELSE IF ~Has(new_schema, "required") THEN Raise("KeyError", "required")
    ELSE OldRequiredLoop(old_schema, new_schema, i + 1,
            IF ~InSeq(old_schema["required"][i], new_schema["required"])
            THEN merge_bump(current_bump, VersionBump(PATCH)) ELSE current_bump)

\* lines 128-142
OldRequiredStep(old_schema, new_schema, current_bump) ==
    IF Has(old_schema, "required") THEN
        OldRequiredLoop(old_schema, new_schema, 1,
            IF ~Has(new_schema, "required")
            THEN merge_bump(current_bump, VersionBump(PATCH)) ELSE current_bump)
    ELSE NewRequiredStep(old_schema, new_schema, current_bump)

\* lines 112-126: for new_name, new_sch in new_props.items()
NewPropsLoop(old_schema, new_schema, i, current_bump) ==
    LET new_props == new_schema["properties"]
        old_props == old_schema["properties"]
    IN IF i > Len(new_props) THEN OldRequiredStep(old_schema, new_schema, current_bump)
       ELSE LET bump1 == IF ~HasProp(old_props, new_props[i].nm)
                         THEN merge_bump(current_bump, VersionBump(MINOR)) ELSE current_bump
            IN IF ~HasProp(old_props, new_props[i].nm) THEN Raise("KeyError", new_props[i].nm)
               ELSE LET r == calc_component_bump(GetProp(old_props, new_props[i].nm),
                                                 new_props[i].sch, bump1)
                    IN IF IsRaise(r) THEN r
                       ELSE IF merge_bump(bump1, r).v = MAJOR THEN merge_bump(bump1, r)
                       ELSE NewPropsLoop(old_schema, new_schema, i + 1, merge_bump(bump1, r))

\* lines 97-110: for old_name, old_sch in old_props.items()
OldPropsLoop(old_schema, new_schema, i, current_bump) ==
    LET new_props == new_schema["properties"]
        old_props == old_schema["properties"]
    IN IF i > Len(old_props) THEN NewPropsLoop(old_schema, new_schema, 1, current_bump)
       ELSE IF ~HasProp(new_props, old_props[i].nm) THEN VersionBump(MAJOR)
       ELSE LET r == calc_component_bump(old_props[i].sch,
                                         GetProp(new_props, old_props[i].nm), current_bump)
            IN IF IsRaise(r) THEN r
               ELSE IF merge_bump(current_bump, r).v = MAJOR THEN merge_bump(current_bump, r)
               ELSE OldPropsLoop(old_schema, new_schema, i + 1, merge_bump(current_bump, r))

\* lines 90-126
PropertiesStep(old_schema, new_schema, current_bump) ==
    IF Has(old_schema, "properties") THEN
        IF ~Has(new_schema, "properties") THEN VersionBump(MAJOR)
        ELSE OldPropsLoop(old_schema, new_schema, 1, current_bump)
    ELSE OldRequiredStep(old_schema, new_schema, current_bump)

\* lines 228-235: for i, old_item in enumerate(old_schema["prefixItems"])
PrefixItemsLoop(old_schema, new_schema, i, current_bump) ==
    IF i > Len(old_schema["prefixItems"]) THEN current_bump
    ELSE LET r == calc_component_bump(old_schema["prefixItems"][i],
                                      new_schema["prefixItems"][i], current_bump)
         IN IF IsRaise(r) THEN r
            ELSE IF merge_bump(current_bump, r).v = MAJOR THEN merge_bump(current_bump, r)
            ELSE PrefixItemsLoop(old_schema, new_schema, i + 1, merge_bump(current_bump, r))

\* lines 213-235, then the final "return current_bump"
PrefixItemsStep(old_schema, new_schema, current_bump) ==
    IF Has(old_schema, "prefixItems") THEN
        IF ~Has(new_schema, "prefixItems") THEN VersionBump(MAJOR)
        ELSE IF Len(new_schema["prefixItems"]) # Len(old_schema["prefixItems"])
             THEN VersionBump(MAJOR)
        ELSE PrefixItemsLoop(old_schema, new_schema, 1, current_bump)
    ELSE current_bump

\* lines 197-211
ItemsStep(old_schema, new_schema, current_bump) ==
    IF Has(old_schema, "items") THEN
        IF ~Has(new_schema, "items") THEN VersionBump(MAJOR)
        ELSE LET r == calc_component_bump(old_schema["items"], new_schema["items"], current_bump)
             IN IF IsRaise(r) THEN r
                ELSE IF merge_bump(current_bump, r).v = MAJOR THEN merge_bump(current_bump, r)
                ELSE PrefixItemsStep(old_schema, new_schema, merge_bump(current_bump, r))
    ELSE PrefixItemsStep(old_schema, new_schema, current_bump)

calc_component_bump(old_schema, new_schema, current_bump0) ==
    IF Has(old_schema, "oneOf") /\ ~Has(new_schema, "oneOf") THEN VersionBump(MAJOR)
    ELSE LET current_bump == IF Has(new_schema, "oneOf") /\ ~Has(old_schema, "oneOf")
                             THEN merge_bump(current_bump0, VersionBump(PATCH))
                             ELSE current_bump0
         IN IF ~Has(old_schema, "type") \/ ~Has(new_schema, "type") THEN Raise("KeyError", "type")
            ELSE IF current_bump.v = MAJOR THEN current_bump
            ELSE IF old_schema["type"] = "object" THEN
                IF new_schema["type"] # "object" THEN VersionBump(MAJOR)
                ELSE PropertiesStep(old_schema, new_schema, current_bump)
            ELSE IF old_schema["type"] \in FIRST_ORDER_SCHEMA THEN
                IF old_schema["type"] # new_schema["type"] THEN VersionBump(MAJOR)
                ELSE IF Has(old_schema, "format") THEN
                    IF ~Has(new_schema, "format") THEN Raise("KeyError", "format")
                    ELSE IF old_schema["format"] # new_schema["format"] THEN VersionBump(MAJOR)
                    ELSE current_bump
                ELSE current_bump
            ELSE IF old_schema["type"] = "array" THEN
                IF new_schema["type"] # "array" THEN VersionBump(MAJOR)
                ELSE ItemsStep(old_schema, new_schema, current_bump)
            ELSE Raise("ValueError", "unkown type for schema")

\* ------------------------------------------------------------------------
\* calc_schema_bump
\* An interface document is [paths |-> <<[path, actions]>>] with actions
\* <<[action, schema]>>, schema being
\* val["requestBody"]["content"]["application/json"]["schema"].
\* ------------------------------------------------------------------------
Route(path, actions) == [path |-> path, actions |-> actions]
Action(action, schema, responses) ==
    [action |-> action, schema |-> schema, responses |-> responses]
HasPath(paths, path) == \E i \in 1..Len(paths) : paths[i].path = path
GetPath(paths, path) == paths[CHOOSE i \in 1..Len(paths) : paths[i].path = path].actions
HasAction(actions, action) == \E i \in 1..Len(actions) : actions[i].action = action
GetAction(actions, action) ==
    actions[CHOOSE i \in 1..Len(actions) : actions[i].action = action].schema

RECURSIVE OldPathsLoop(_, _, _, _, _)
RECURSIVE NewPathsLoop(_, _, _, _, _)

\* lines 279-289: for path in new_paths / for action, val in new_paths[path].items()
NewPathsLoop(old_paths, new_paths, i, j, bump) ==
    IF i > Len(new_paths) THEN bump
    ELSE IF ~HasPath(old_paths, new_paths[i].path) THEN VersionBump(MINOR)
    ELSE IF j > Len(new_paths[i].actions) THEN NewPathsLoop(old_paths, new_paths, i + 1, 1, bump)
    ELSE IF ~HasAction(GetPath(old_paths, new_paths[i].path), new_paths[i].actions[j].action)
         THEN VersionBump(MINOR)
    ELSE NewPathsLoop(old_paths, new_paths, i, j + 1, bump)

\* lines 264-277: for path in old_paths / for action, val in old_paths[path].items()
OldPathsLoop(old_paths, new_paths, i, j, bump) ==
    IF i > Len(old_paths) THEN NewPathsLoop(old_paths, new_paths, 1, 1, bump)
    ELSE IF ~HasPath(new_paths, old_paths[i].path) THEN VersionBump(MAJOR)
    ELSE IF j > Len(old_paths[i].actions) THEN OldPathsLoop(old_paths, new_paths, i + 1, 1, bump)
    ELSE IF ~HasAction(GetPath(new_paths, old_paths[i].path), old_paths[i].actions[j].action)
         THEN VersionBump(MAJOR)
    ELSE LET r == calc_component_bump(old_paths[i].actions[j].schema,
                      GetAction(GetPath(new_paths, old_paths[i].path), old_paths[i].actions[j].action),
                      bump)
         IN IF IsRaise(r) THEN r ELSE OldPathsLoop(old_paths, new_paths, i, j + 1, r)

calc_schema_bump(old_schema, new_schema) ==
    OldPathsLoop(old_schema["paths"], new_schema["paths"], 1, 1, VersionBump(NONE))

\* ------------------------------------------------------------------------
\* build_json_schema, obj_api_schema (modelos/object/schema.py)
\* ------------------------------------------------------------------------
EmptySchema == [key \in {} |-> PNone]
Put(schema, key, val) ==
    [x \in DOMAIN schema \cup {key} |-> IF x = key THEN val ELSE schema[x]]

type_map(t) ==
    CASE t = int -> [type |-> "integer"]
      [] t = float -> [type |-> "number", format |-> "float"]
      [] t = str -> [type |-> "string"]
      [] t = bool -> [type |-> "boolean"]
      [] t = bytes -> [type |-> "string", format |-> "byte"]

\* bool(x) of a default value
Truthy(x) ==
    CASE x.k = "none" -> FALSE
      [] x.k = "bool" -> x.v
      [] x.k = "int" -> x.v # 0
      [] x.k = "str" -> x.v # ""
      [] x.k \in {"list", "tuple"} -> Len(x.xs) > 0
      [] x.k = "dict" -> Len(x.items) > 0
      [] OTHER -> TRUE

\* the names of the model in the order sorted() gives them
NameOrder == <<"BLUE", "RED", "a", "b", "c", "value">>
\* sorted(names) of a set of distinct names
SortedNames(names) == SelectSeq(NameOrder, LAMBDA nm : nm \in names)
\* dict(sorted(annots.items()))
SortedAnnots(annots) ==
    LET names == SortedNames({annots[i].nm : i \in 1..Len(annots)})
    IN [i \in 1..Len(names) |-> annots[CHOOSE j \in 1..Len(annots) : annots[j].nm = names[i]]]
\* dict(sorted(member_map))
SortedMembers(members) ==
    LET names == SortedNames({members[i].label : i \in 1..Len(members)})
    IN [i \in 1..Len(names) |-> members[CHOOSE j \in 1..Len(members) : members[j].label = names[i]]]

\* a built schema is a function without the key "k"; an exception has it
IsSchema(r) == ~Has(r, "k")

RECURSIVE build_json_schema(_, _, _)
RECURSIVE BuildEach(_, _, _)
RECURSIVE BuildAnnots(_, _, _, _)

\* for arg in args: items.append(build_json_schema(arg)): [items], or [err]
BuildEach(args, i, acc) ==
    IF i > Len(args) THEN [items |-> acc]
    ELSE LET r == build_json_schema(args[i], PNone, TRUE)
         IN IF ~IsSchema(r) THEN [err |-> r] ELSE BuildEach(args, i + 1, Append(acc, r))

\* for nm, typ in annots.items(): [props, opts], or [err] holding the exception
BuildAnnots(annots, i, props, opts) ==
    IF i > Len(annots) THEN [props |-> props, opts |-> opts]
    ELSE LET prop == build_json_schema(annots[i].typ, PNone, TRUE)
         IN IF ~IsSchema(prop) THEN [err |-> prop]
            ELSE IF Has(prop, "default") THEN [err |-> Raise("KeyError", "None")]
            ELSE BuildAnnots(annots, i + 1, Append(props, Prop(annots[i].nm, prop)),
                             Append(opts, annots[i].nm))

build_json_schema(obj, default, sort) ==
    IF obj = NoneType THEN EmptySchema
    ELSE IF is_first_order(obj) THEN
        IF Truthy(default) THEN Put(type_map(obj), "default", default) ELSE type_map(obj)
    ELSE IF is_dict(obj) THEN
        IF get_args(obj)[1] # str THEN Raise("ValueError", "Only string keys are supported")
        ELSE LET val == build_json_schema(get_args(obj)[2], PNone, TRUE)
             IN IF ~IsSchema(val) THEN val
                ELSE [type |-> "object", additionalProperties |-> val]
    ELSE IF is_tuple(obj) THEN
        LET items == BuildEach(get_args(obj), 1, <<>>)
        IN IF Has(items, "err") THEN items.err
           ELSE [type |-> "array", prefixItems |-> items.items]
    ELSE IF is_optional(obj) THEN build_json_schema(get_args(obj)[1], default, TRUE)
    ELSE IF is_list(obj) THEN
        LET typ == build_json_schema(get_args(obj)[1], PNone, TRUE)
        IN IF ~IsSchema(typ) THEN typ ELSE [type |-> "array", items |-> typ]
    ELSE IF is_union(obj) THEN
        IF sort THEN Raise("TypeError", "'<' not supported between instances of 'type' and 'type'")
        ELSE LET items == BuildEach(get_args(obj), 1, <<>>)
             IN IF Has(items, "err") THEN items.err ELSE [oneOf |-> items.items]
    ELSE IF is_enum(obj) THEN
        LET member_map == IF sort THEN SortedMembers(obj.members) ELSE obj.members
        IN [type |-> "string", enum |-> [i \in 1..Len(member_map) |-> member_map[i].value]]
    ELSE IF obj = Any THEN [type |-> "AnyType"]
    ELSE LET annots == IF sort THEN SortedAnnots(get_type_hints(obj))
                       ELSE get_type_hints(obj)
             r == BuildAnnots(annots, 1, <<>>, <<>>)
         IN IF Has(r, "err") THEN r.err
            ELSE IF Len(r.opts) > 0
                 THEN [type |-> "object", properties |-> r.props, required |-> r.opts]
                 ELSE [type |-> "object", properties |-> r.props]

\* a class whose public functions make the interface: methods are
\* <<[name, params, ret]>>, params <<[k, annotation, default]>> (self omitted)
ApiClass(name, methods) == [name |-> name, methods |-> methods]
Method(name, params, ret) == [name |-> name, params |-> params, ret |-> ret]
Param(k, annotation, default) == [k |-> k, annotation |-> annotation, default |-> default]
\* inspect._empty
Empty == [k |-> "empty"]

\* dict(sorted(params)) / inspect.getmembers(obj), sorted(fns)
SortedParams(params) ==
    LET names == SortedNames({params[i].k : i \in 1..Len(params)})
    IN [i \in 1..Len(names) |-> params[CHOOSE j \in 1..Len(params) : params[j].k = names[i]]]
SortedFns(fns) ==
    LET names == SortedNames({fns[i].name : i \in 1..Len(fns)})
    IN [i \in 1..Len(names) |-> fns[CHOOSE j \in 1..Len(fns) : fns[j].name = names[i]]]

RECURSIVE BuildParams(_, _, _, _)
RECURSIVE BuildRoutes(_, _, _, _)

\* lines 171-178, the body of the loop over the parameters, given the schema
\* built for parameter i
ParamsStep(params, i, req_props, required, schema) ==
    IF ~IsSchema(schema) THEN [err |-> schema]
    ELSE BuildParams(params, i + 1, Append(req_props, Prop(params[i].k, schema)),
             IF params[i].default = Empty THEN Append(required, params[i].k) ELSE required)

\* for k, v in params: [req_props, required], or [err]
BuildParams(params, i, req_props, required) ==
    IF i > Len(params) THEN [req_props |-> req_props, required |-> required]
    ELSE ParamsStep(params, i, req_props, required,
             build_json_schema(params[i].annotation,
                 IF params[i].default # Empty THEN params[i].default ELSE PNone, TRUE))

\* the request schema of a function from its parameters r
RequestSchema(r) ==
    IF Len(r.required) > 0
    THEN [type |-> "object", properties |-> r.req_props, required |-> r.required]
    ELSE [type |-> "object", properties |-> r.req_props]

\* the route of a function given its parameters r and the schema of its
\* return annotation, or the exception
RouteOf(fn, r, ret_schema) ==
    IF Has(r, "err") THEN r.err
    ELSE IF ~IsSchema(ret_schema) THEN ret_schema
    ELSE IF ret_schema = EmptySchema
         THEN Route(fn.name, <<Action("post", RequestSchema(r), [description |-> "ok"])>>)
    ELSE IF ~Has(ret_schema, "type") THEN Raise("KeyError", "type")
    ELSE Route(fn.name, <<Action("post", RequestSchema(r),
               [schema |->
                   IF ret_schema["type"] # "object"
                   THEN [type |-> "object", properties |-> <<Prop("value", ret_schema)>>]
                   ELSE ret_schema])>>)

\* the route of one function (lines 162-210), or the exception
BuildRoute(fn, sort) ==
    RouteOf(fn,
            BuildParams(IF sort THEN SortedParams(fn.params) ELSE fn.params, 1, <<>>, <<>>),
            build_json_schema(fn.ret, PNone, TRUE))

\* paths[f"/{name}"] = route, or the exception building it raised
RoutesStep(fns, sort, i, acc, route) ==
    IF Has(route, "k") THEN [err |-> route]
    ELSE BuildRoutes(fns, sort, i + 1, Append(acc, route))

\* for name, fn in fns: paths[f"/{name}"] = route: [paths], or [err]
BuildRoutes(fns, sort, i, acc) ==
    IF i > Len(fns) THEN [paths |-> acc]
    ELSE RoutesStep(fns, sort, i, acc, BuildRoute(fns[i], sort))

\* the document of lines 212-222 over the routes r
ApiDocument(obj, r) ==
    IF Has(r, "err") THEN r.err
    ELSE [openapi |-> "3.1.0", info |-> [description |-> "", title |-> obj.name],
          paths |-> r.paths]

\* the path "/name" is identified with name; inspect.getmembers returns the
\* functions sorted by name, so sorted(fns) leaves them as they are
obj_api_schema(obj, sort) ==
    ApiDocument(obj, BuildRoutes(SortedFns(obj.methods), sort, 1, <<>>))

\* ------------------------------------------------------------------------
\* Version.is_compatible (modelos/object/id.py)
\* ------------------------------------------------------------------------
\* a Version: the interface hash, and the logic and state hashes (str or None)
Version(interface, logic, state) ==
    [interface |-> interface, logic |-> logic, state |-> state]

\* a comparison of all three fields, whatever self leaves unset
is_equal(self, other) == PBool(self = other)

is_compatible(self, other) ==
    IF self.interface # other.interface THEN PBool(FALSE)
    ELSE IF Truthy(self.logic) /\ self.logic # other.logic THEN PBool(FALSE)
    ELSE IF Truthy(self.state) /\ self.state # other.state THEN PBool(FALSE)
    ELSE PBool(TRUE)

\* ---- Version.__str__ and Version.parse ----
\* The text of a version is kept as its characters, so that split, indexing
\* and len act on it as they do on a Python str.
Text(cs) == [k |-> "str", v |-> cs]
Digits == {"0", "1", "2", "3", "4", "5", "6", "7", "8", "9"}
isnumeric(cs) == Len(cs) > 0 /\ \A i \in 1..Len(cs) : cs[i] \in Digits

\* s.split(sep) for a separator of one character
RECURSIVE SplitFrom(_, _, _, _, _)
SplitFrom(cs, sep, i, cur, acc) ==
    IF i > Len(cs) THEN Append(acc, cur)
    ELSE IF cs[i] = sep THEN SplitFrom(cs, sep, i + 1, <<>>, Append(acc, cur))
    ELSE SplitFrom(cs, sep, i + 1, Append(cur, cs[i]), acc)
split(cs, sep) == SplitFrom(cs, sep, 1, <<>>, <<>>)

\* "sep".join(parts)
RECURSIVE Join(_, _)
Join(parts, sep) ==
    IF Len(parts) = 0 THEN <<>>
    ELSE IF Len(parts) = 1 THEN parts[1]
    ELSE parts[1] \o <<sep>> \o Join(Tail(parts), sep)

\* the truth value of an Optional[str] field
IsSet(x) == x # PNone /\ Len(x.v) > 0

is_semver(self) == Len(self.interface.v) < 5 /\ isnumeric(self.interface.v)
is_object(self) == IsSet(self.logic) /\ ~IsSet(self.state)
is_instance(self) == IsSet(self.logic) /\ IsSet(self.state)

__str__(self) ==
    IF is_instance(self) THEN
        IF is_semver(self)
        THEN <<"v">> \o Join(<<self.interface.v, self.logic.v, self.state.v>>, ".")
        ELSE Join(<<self.interface.v, self.logic.v, self.state.v>>, "-")
    ELSE IF is_object(self) THEN
        IF is_semver(self)
        THEN <<"v">> \o Join(<<self.interface.v, self.logic.v>>, ".")
        ELSE Join(<<self.interface.v, self.logic.v>>, "-")
    ELSE IF is_semver(self) THEN <<"v">> \o self.interface.v
    ELSE self.interface.v

\* the hash form: the segments are split by "-", and logic is read from the
\* split by "."
ParseHash(s, sver_parts, ver_parts) ==
    IF Len(ver_parts[1]) # 5 THEN Raise("ValueError", "malformed version, cannot parse")
    ELSE IF Len(ver_parts) > 1 /\ Len(sver_parts) < 2
    THEN Raise("IndexError", "list index out of range")
    ELSE Version(Text(ver_parts[1]),
                 IF Len(ver_parts) > 1 THEN Text(sver_parts[2]) ELSE PNone,
                 IF Len(ver_parts) > 2 THEN Text(ver_parts[3]) ELSE PNone)

ParseSemver(sver_parts) ==
    Version(Text(Tail(sver_parts[1])),
            IF Len(sver_parts) > 1 THEN Text(sver_parts[2]) ELSE PNone,
            IF Len(sver_parts) > 2 THEN Text(sver_parts[3]) ELSE PNone)

parse(s) ==
    IF Len(s) = 0 THEN Raise("IndexError", "string index out of range")
    ELSE IF s[1] = "v" /\ Len(s) < 2 THEN Raise("IndexError", "string index out of range")
    ELSE IF s[1] = "v" /\ isnumeric(<<s[2]>>) /\ Len(split(s, ".")[1]) < 5
    THEN ParseSemver(split(s, "."))
    ELSE ParseHash(s, split(s, "."), split(s, "-"))

\* ------------------------------------------------------------------------
\* Lock and the lock check of a served object (modelos/object/base.py)
\* ------------------------------------------------------------------------
\* dataclass Lock: created is the time.time() reading of lock(); key and
\* timeout are optional
Lock(created, key, timeout) ==
    [k |-> "Lock", created |-> created, key |-> key, timeout |-> timeout]

\* Lock.is_expired, time being the reading of time.time()
is_expired(self, time) ==
    IF self.timeout = PNone THEN FALSE
    ELSE IF (time - self.created) > self.timeout.v THEN TRUE
    ELSE FALSE

\* Lock.try_unlock: returns None or raises SystemError
try_unlock(self, key, time) ==
    IF self.key = PNone THEN PNone
    ELSE IF is_expired(self, time) THEN PNone
    ELSE IF self.key = key THEN PNone
    ELSE Raise("SystemError", "Object is locked and key provided is denied")

\* Object.lock on an object whose _lock is cur: the new _lock, or the error raised
\* a lock() that installs its lock over whatever lock exists
relock(cur, key, timeout, time) == Lock(time, key, timeout)

lock(cur, key, timeout, time) ==
    IF cur # PNone /\ ~is_expired(cur, time)
    THEN Raise("SystemError", "lock already exists")
    ELSE Lock(time, key, timeout)

\* Object.unlock on an object whose _lock is cur: the new _lock, or the error raised
unlock(cur, key, force, time) ==
    IF cur = PNone THEN cur
    ELSE IF is_expired(cur, time) THEN PNone
    ELSE IF cur.key = PNone THEN PNone
    ELSE IF cur.key = key THEN PNone
    ELSE IF force THEN PNone
    ELSE Raise("ValueError", "lock requires a key to unlock, or force")

\* Object._is_locked
_is_locked(cur, time) ==
    IF cur = PNone THEN FALSE
    ELSE IF is_expired(cur, time) THEN FALSE
    ELSE TRUE

\* Object._check_lock: the client uuid of the request, or the error raised
_check_lock(cur, headers, time) ==
    IF ~HasKey(headers, "client-uuid")
    THEN Raise("ValueError", "'client-uuid' must be present in headers")
    ELSE IF cur = PNone THEN GetKey(headers, "client-uuid")
    ELSE IF IsRaise(try_unlock(cur, GetKey(headers, "client-uuid"), time))
         THEN try_unlock(cur, GetKey(headers, "client-uuid"), time)
    ELSE GetKey(headers, "client-uuid")

\* ------------------------------------------------------------------------
\* Pkg.release (modelos/pkg/base.py, pkg/version.py, util/version.py,
\* pkg/repo/local.py, pkg/repo/oci.py)
\* ------------------------------------------------------------------------
\* a version string: "v1.2.3" is SemVer(TRUE, 1, 2, 3) and "1.2.3" is
\* SemVer(FALSE, 1, 2, 3)
SemVer(prefix, major, minor, patch) ==
    [k |-> "semver", prefix |-> prefix, major |-> major, minor |-> minor, patch |-> patch]
\* the version of a package that was never released: the hash of its files
HashVer(h) == [k |-> "hashver", h |-> h]

\* PkgInfo, with the two fields release() reads and writes
PkgInfo(version, file_hash) == [k |-> "PkgInfo", version |-> version, file_hash |-> file_hash]

\* the file LocalPkgRepo.info reads
INFO_FILE == ".pkg/info.yaml"

\* the local repository holds one directory of the package, named by a version
LocalDir(version, files) == [version |-> version, files |-> files]

\* a Pkg instance: the version of its id, and the directory path it remembers
PkgOf(version, root_dir) == [_id |-> version, _root_dir |-> root_dir]

\* hash_file: the digest of the content of a file
hash_file(content) == [k |-> "sha256", of |-> content]

RECURSIVE HashEach(_, _, _)
HashEach(files, i, file_hash) ==
    IF i > Len(files) THEN file_hash
    ELSE HashEach(files, i + 1,
                  Append(file_hash, Item(files[i].key, hash_file(files[i].val))))

\* hash_files(path): file name -> digest for every file under the directory
\* (only .mdl is skipped), ValueError if the path does not exist
hash_files(l, path) ==
    IF l.version # path THEN Raise("ValueError", "file does not exist")
    ELSE PDict(HashEach(l.files, 1, <<>>))

RECURSIVE CompareLoop(_, _, _, _)
CompareLoop(current, new_hashes, i, cur_bump) ==
    IF i > Len(new_hashes) THEN cur_bump
    ELSE IF ~HasKey(current, new_hashes[i].key)
         THEN CompareLoop(current, new_hashes, i + 1,
                          IF cur_bump.v < MINOR THEN VersionBump(MINOR) ELSE cur_bump)
    ELSE IF new_hashes[i].val # GetKey(current, new_hashes[i].key)
         THEN CompareLoop(current, new_hashes, i + 1, VersionBump(MAJOR))
    ELSE CompareLoop(current, new_hashes, i + 1, cur_bump)

compare_file_hashes(current, new_hashes) ==
    CompareLoop(current.items, new_hashes.items, 1, VersionBump(NONE))

\* util/version.py bump_version: the "v" is stripped, and put back only when
\* there is a bump
bump_version(version, cur_bump) ==
    IF version.k # "semver" THEN Raise("ValueError", "not valid SemVer")
    ELSE IF cur_bump.v = NONE THEN [version EXCEPT !.prefix = FALSE]
    ELSE IF cur_bump.v = PATCH
         THEN SemVer(TRUE, version.major, version.minor, version.patch + 1)
    ELSE IF cur_bump.v = MINOR THEN SemVer(TRUE, version.major, version.minor + 1, 0)
    ELSE SemVer(TRUE, version.major + 1, 0, 0)

\* VersionInfo.parse(nvs.version[1:]) succeeds: for components below 10 that
\* is a semantic version written with a one-character prefix
ParsesAfterPrefix(version) == version.k = "semver" /\ version.prefix

\* VersionInfo.__gt__
SemVerGt(a, b) ==
    \/ a.major > b.major
    \/ a.major = b.major /\ a.minor > b.minor
    \/ a.major = b.major /\ a.minor = b.minor /\ a.patch > b.patch

RECURSIVE LatestLoop(_, _, _)
LatestLoop(tags, i, latest_version) ==
    IF i > Len(tags) THEN latest_version
    ELSE IF ~ParsesAfterPrefix(tags[i].version) THEN LatestLoop(tags, i + 1, latest_version)
    ELSE IF latest_version = PNone THEN LatestLoop(tags, i + 1, tags[i].version)
    ELSE IF SemVerGt(tags[i].version, latest_version)
         THEN LatestLoop(tags, i + 1, tags[i].version)
    ELSE LatestLoop(tags, i + 1, latest_version)

\* OCIPkgRepo.latest over the tags of the remote repository
latest(tags) == LatestLoop(tags, 1, PNone)

\* Pkg.manifest: the info pushed under the version, an error if there is none
manifest(tags, version) ==
    IF \E i \in 1..Len(tags) : tags[i].version = version
    THEN tags[CHOOSE i \in 1..Len(tags) : tags[i].version = version]
    ELSE Raise("Exception", "manifest unknown")

\* LocalPkgRepo.info: reads <version path>/.pkg/info.yaml
info(l, version) ==
    IF l.version # version \/ ~HasKey(l.files, INFO_FILE)
    THEN Raise("FileNotFoundError", INFO_FILE)
    ELSE GetKey(l.files, INFO_FILE)

\* what a method of Pkg leaves behind, and what it returned or raised
Outcome(p, l, r, result) == [pkg |-> p, local |-> l, remote |-> r, ret |-> result]

\* release() from `old_path = local.find_path(self._id)`: the id takes the
\* version, the directory is renamed, and local.write_info is not a method of
\* LocalPkgRepo; `self._root_dir = ...` and the push are never reached
RenameStep(p, l, r, version) ==
    Outcome([p EXCEPT !._id = version], [l EXCEPT !.version = version], r,
            Raise("AttributeError", "'LocalPkgRepo' object has no attribute 'write_info'"))

\* release(): `version = bump_version(latest, version_bump)` and the comparison
BumpStep(p, l, r, latest_version, version) ==
    IF version = latest_version
    THEN Outcome(p, l, r, Raise("ValueError",
                                "The current package is the same as the latest release"))
    ELSE RenameStep(p, l, r, version)

\* Pkg.release(version)
release(p, l, r, version) ==
    IF IsRaise(info(l, p._id)) THEN Outcome(p, l, r, info(l, p._id))
    ELSE IF version # PNone THEN RenameStep(p, l, r, version)
    ELSE IF latest(r) = PNone
         THEN IF IsRaise(hash_files(l, p._root_dir))
              THEN Outcome(p, l, r, hash_files(l, p._root_dir))
              ELSE RenameStep(p, l, r, SemVer(TRUE, 0, 1, 0))
    ELSE IF IsRaise(manifest(r, p._id)) THEN Outcome(p, l, r, manifest(r, p._id))
    ELSE IF IsRaise(hash_files(l, p._root_dir))
         THEN Outcome(p, l, r, hash_files(l, p._root_dir))
    ELSE BumpStep(p, l, r, latest(r),
                  bump_version(latest(r),
                               compare_file_hashes(manifest(r, p._id).file_hash,
                                                   hash_files(l, p._root_dir))))

\* the tags after OCIPkgRepo.push of pushed: a tag of the same version is replaced
RECURSIVE PushTag(_, _, _)
PushTag(tags, i, pushed) ==
    IF i > Len(tags) THEN Append(tags, pushed)
    ELSE IF tags[i].version = pushed.version THEN [tags EXCEPT ![i] = pushed]
    ELSE PushTag(tags, i + 1, pushed)

\* Pkg.push
push(p, l, r) ==
    IF IsRaise(info(l, p._id)) THEN Outcome(p, l, r, info(l, p._id))
    ELSE Outcome(p, l, PushTag(r, 1, PkgInfo(p._id, info(l, p._id).file_hash)), PNone)

\* the files after `with pkg.open(filepath, "w") as f: f.write(content)`
RECURSIVE WriteFile(_, _, _, _)
WriteFile(files, i, filepath, content) ==
    IF i > Len(files) THEN Append(files, Item(filepath, content))
    ELSE IF files[i].key = filepath THEN [files EXCEPT ![i] = Item(filepath, content)]
    ELSE WriteFile(files, i + 1, filepath, content)

\* Pkg.open(filepath, "w") and a write: the path is under self._root_dir
open(p, l, r, filepath, content) ==
    IF l.version # p._root_dir THEN Outcome(p, l, r, Raise("FileNotFoundError", filepath))
    ELSE Outcome(p, [l EXCEPT !.files = WriteFile(l.files, 1, filepath, content)], r, PNone)

\* Pkg.from_id(id): an instance for the directory of the id
from_id(version) == PkgOf(version, version)

\* ------------------------------------------------------------------------
\* Inputs: the type hints, values, wire payloads and interfaces of the model
\* ------------------------------------------------------------------------
MaxInt == 1
MaxLen == 2
StrVals == {"a", "b"}
DictKeys == {"a", "value"}

\* the classes of tests/object/encoding_test.py (Ham without its field c),
\* and a class that has a field named "value"
Ham == ClassT("Ham", <<Annot("a", str), Annot("b", int)>>)
Box == ClassT("Box", <<Annot("value", int)>>)
EnumNums == EnumT("EnumNums", <<[label |-> "RED", value |-> PInt(1)],
                               [label |-> "BLUE", value |-> PInt(2)]>>)

\* an Enum whose values are strings
EnumStrs == EnumT("EnumStrs", <<[label |-> "RED", value |-> PStr("a")],
                               [label |-> "BLUE", value |-> PStr("b")]>>)

Scalars == {int, str, float, bool, bytes, NoneType}
Containers ==
    {ListT(e) : e \in {int, str, Ham}} \cup {DictT(str, e) : e \in {int, str, Ham}}
    \cup {TupleT(<<str, int>>), TupleT(<<str, Ham>>), TupleT(<<int, DictT(str, int)>>),
          ListT(DictT(str, str)), DictT(str, ListT(int))}
Unions ==
    {OptionalT(int), OptionalT(Ham), OptionalT(str), OptionalT(ListT(int)),
     UnionT(<<int, str, NoneType>>),
     UnionT(<<str, int>>), UnionT(<<int, str>>), UnionT(<<int, bool>>), UnionT(<<bool, int>>),
     UnionT(<<str, Ham>>), UnionT(<<Ham, DictT(str, str)>>), UnionT(<<EnumNums, str>>),
     UnionT(<<ListT(int), str>>), UnionT(<<ListT(Ham), DictT(str, Ham)>>),
     UnionT(<<TupleT(<<str, int>>), str>>), UnionT(<<DictT(str, int), ListT(int)>>)}
Types == Scalars \cup {Ham, Box, EnumNums, EnumStrs} \cup Containers \cup Unions

SeqsUpTo(S, n) == UNION {[1..m -> S] : m \in 0..n}
RECURSIVE Product(_)
Product(sets) ==
    IF Len(sets) = 0 THEN {<<>>}
    ELSE {<<h>> \o tl : h \in sets[1], tl \in Product(Tail(sets))}

\* the values valid for a type hint
RECURSIVE ValuesOf(_)
ValuesOf(t) ==
    CASE t = int -> {PInt(i) : i \in 0..MaxInt}
      [] t = str -> {PStr(s) : s \in StrVals}
      [] t = float -> {PFloat(i) : i \in 0..MaxInt}
      [] t = bool -> {PBool(TRUE), PBool(FALSE)}
      [] t = bytes -> {PBytes(<<i>>) : i \in 0..MaxInt}
      [] t = NoneType -> {PNone}
      [] is_list(t) -> {PList(xs) : xs \in SeqsUpTo(ValuesOf(get_args(t)[1]), MaxLen)}
      [] is_dict(t) ->
            LET V == ValuesOf(get_args(t)[2])
            IN {PDict(items) : items \in
                  {its \in SeqsUpTo({Item(key, v) : key \in DictKeys, v \in V}, MaxLen) :
                      \A i, j \in 1..Len(its) : its[i].key = its[j].key => i = j}}
      [] is_tuple(t) ->
            {PTuple(xs) : xs \in Product([i \in 1..Len(t.args) |-> ValuesOf(t.args[i])])}
      [] is_union(t) -> UNION {ValuesOf(t.args[i]) : i \in 1..Len(t.args)}
      [] is_enum(t) ->
            {PEnum(t.name, t.members[i].label, t.members[i].value) : i \in 1..Len(t.members)}
      [] t.k = "class" ->
            {PObj(t.name, [i \in 1..Len(t.annots) |-> Item(t.annots[i].nm, xs[i])]) :
                xs \in Product([i \in 1..Len(t.annots) |-> ValuesOf(t.annots[i].typ)])}

\* the payloads put on the wire by a peer: every encoding, enveloped or not
EncodingsOf(ty) == UNION {{encode_any(v, ty), _encode_any(v, ty)} : v \in ValuesOf(ty)}
WireValues == {r \in UNION {EncodingsOf(ty) : ty \in Types} : ~IsRaise(r)}
\* the type hints payloads are matched against and decoded into; the class
\* Spam declares the field a of Ham only, so a payload of Ham carries a key
\* that Spam does not declare
WireTypes ==
    Unions \cup {int, str, float, bool, bytes, Ham, TupleT(<<str, int>>), Any,
                 ClassT("Spam", <<Annot("a", str)>>)}

\* type hints whose schemas are compared
SchemaTypes ==
    {int, str, float, bool, bytes, Ham, Box, EnumNums, OptionalT(int),
     ClassT("Ham", <<Annot("a", int), Annot("b", int)>>),
     ClassT("Ham", <<Annot("a", str), Annot("b", int), Annot("c", str)>>),
     ListT(str), ListT(int), DictT(str, str), DictT(str, int),
     TupleT(<<str, int>>), TupleT(<<str, str>>), UnionT(<<str, int>>), UnionT(<<int, str>>),
     ClassT("Ham", <<Annot("b", int), Annot("a", str)>>),
     ClassT("Ham", <<Annot("a", OptionalT(int)), Annot("b", str)>>),
     ClassT("Ham", <<Annot("a", str), Annot("b", UnionT(<<str, int>>))>>),
     ClassT("Ham", <<Annot("b", UnionT(<<str, int>>)), Annot("a", str)>>)}

\* the signatures of the interface's functions
FnA ==
    {Method("a", <<Param("a", str, Empty), Param("b", str, Empty)>>, str),
     Method("a", <<Param("a", str, Empty), Param("b", str, Empty),
                   Param("c", str, PStr("a"))>>, str),
     Method("a", <<Param("a", str, Empty), Param("b", OptionalT(str), PNone)>>, str),
     Method("a", <<Param("a", OptionalT(str), PNone), Param("b", OptionalT(str), PNone)>>, str),
     Method("a", <<Param("a", int, Empty), Param("b", str, Empty)>>, str),
     Method("a", <<Param("a", float, Empty), Param("b", str, Empty)>>, NoneType),
     Method("a", <<Param("a", str, Empty)>>, Ham)}
FnB ==
    {Method("b", <<>>, NoneType),
     Method("b", <<Param("a", ListT(str), Empty)>>, int)}
ApiClasses ==
    {ApiClass("Api", <<fa>>) : fa \in FnA}
    \cup {ApiClass("Api", <<fb, fa>>) : fa \in FnA, fb \in FnB}
    \cup {ApiClass("Api", <<fb>>) : fb \in FnB}

\* the request schemas obj_api_schema emits for the functions named "a"
RequestSchemas ==
    {r.actions[1].schema : r \in {rt \in {BuildRoute(fa, TRUE) : fa \in FnA} : ~Has(rt, "k")}}

\* the schemas build_json_schema emits without sorting for scalars and for
\* unions, whose schema is {"oneOf": [...]} with no "type"
UnionSchemas ==
    {build_json_schema(ty, PNone, FALSE) :
        ty \in {str, int, bytes, UnionT(<<str, int>>), UnionT(<<int, str>>)}}

\* the versions compared: hashes, the empty string and None in logic and state
Hashes == {PStr(h) : h \in StrVals}
Versions ==
    {Version(i, l, st) : i \in Hashes, l \in Hashes \cup {PNone, PStr("")},
                         st \in Hashes \cup {PNone, PStr("")}}
\* the versions printed and parsed back: hash form with a 5-character
\* interface, semver form with a numeric interface, a state only with a logic
HashTexts == {Text(<<"a", "b", "c", "d", "e">>), Text(<<"f", "0", "1", "2", "3">>),
              Text(<<"4", "5", "6", "7", "8">>)}
SemverTexts == {Text(<<"0">>), Text(<<"1">>), Text(<<"1", "2">>)}
TextVersions ==
    {Version(i, l, st) : i \in HashTexts, l \in HashTexts \cup {PNone}, st \in {PNone}}
    \cup {Version(i, l, st) : i \in HashTexts, l \in HashTexts, st \in HashTexts}
    \cup {Version(i, l, st) : i \in SemverTexts, l \in SemverTexts \cup {PNone}, st \in {PNone}}
    \cup {Version(i, l, st) : i \in SemverTexts, l \in SemverTexts, st \in SemverTexts}
\* the members of VersionBump
Bumps == {VersionBump(v) : v \in NONE..MAJOR}

\* the clock of the served object runs from 0 to MaxTime
MaxTime == 3
\* the uuids of the clients, the keys and the timeouts they lock with
Clients == {"c1", "c2"}
Keys == {PNone, PStr("c1"), PStr("k")}
Timeouts == {PNone, PInt(1)}
\* a request of a generated client carries its uuid; a bare request may not
HeadersOf(c) == {<<Item("content-type", "application/json"), Item("client-uuid", PStr(c))>>,
                 <<Item("content-type", "application/json")>>}

\* automatic releases are taken while the latest release is below MaxVersion
MaxVersion == 2
FileNames == {"a.txt", "new.txt"}
Contents == {"New!", "New!appended!"}
\* the files the package is created with, and their hashes
BaseFiles == <<Item("a.txt", "New!")>>
BaseHashes == PDict(HashEach(BaseFiles, 1, <<>>))
\* the directory of a package: with and without .pkg/info.yaml
DirsOf(version) ==
    {LocalDir(version, BaseFiles),
     LocalDir(version, Append(BaseFiles, Item(INFO_FILE, PkgInfo(version, BaseHashes))))}
\* a package that was never released, and one released as v0.1.0
Packages ==
    {[local |-> d, remote |-> <<>>] : d \in DirsOf(HashVer("0a1b2c3"))}
    \cup {[local |-> d, remote |-> <<PkgInfo(SemVer(TRUE, 0, 1, 0), BaseHashes)>>] :
              d \in DirsOf(SemVer(TRUE, 0, 1, 0))}
ExplicitVersions == {SemVer(TRUE, 1, 0, 0)}

\* ------------------------------------------------------------------------
\* State: one call sequence per behaviour
\*   codec:      start -Encode-> encoded -Match-> matched -Decode-> decoded
\*   wire:       wire  -Match-> matched -Decode-> decoded
\*   types:      types -BuildJsonSchema-> component -CalcComponentBump-> bumped
\*   component:  component -CalcComponentBump-> bumped
\*   iface:      iface -ObjApiSchema-> built -CalcSchemaBump-> bumped
\*   call:       call  -IsCompatible | MergeBump-> returned
\*   serving:    the requests of the clients of a served object, and its clock
\*   pkg:        the calls on a Pkg instance and its repositories
\* ------------------------------------------------------------------------
VARIABLES
    pc,          \* position in the call sequence
    t,           \* type hint given to encode_any / decode_any / json_is_type_match
    obj,         \* value given to encode_any
    jdict,       \* wire payload: result of encode_any, argument of decode_any
    matched,     \* result of json_is_type_match(t, jdict)
    dec,         \* result of decode_any(jdict, t)
    old,         \* old type hint (types) or class (iface)
    new,         \* new type hint (types) or class (iface)
    old_schema,  \* old schema component or interface document
    new_schema,  \* new schema component or interface document
    bump,        \* result of calc_component_bump / calc_schema_bump
    args,        \* the function called and its arguments (call), the last request
    ret,         \* what the call returned or raised
    _lock,       \* Object._lock of the served object
    now,         \* the reading of time.time()
    holder,      \* the uuid of the client whose lock() installed _lock
    pkg,         \* the Pkg instance: the version of its id and its _root_dir
    local,       \* the directory of the package in the local repository
    remote       \* the tags of the package in the remote repository

objVars == <<t, obj, jdict, matched, dec, old, new, old_schema, new_schema, bump>>
callVars == <<args, ret>>
lockVars == <<_lock, now, holder>>
pkgVars == <<pkg, local, remote>>
vars == <<pc, objVars, callVars, lockVars, pkgVars>>

Nil == [k |-> "nil"]

\* the variables a call sequence does not use
NoObj ==
    /\ t = Nil /\ obj = Nil /\ jdict = Nil /\ matched = Nil /\ dec = Nil
    /\ old = Nil /\ new = Nil /\ old_schema = Nil /\ new_schema = Nil /\ bump = Nil
NoCall == args = Nil /\ ret = Nil
NoLock == _lock = Nil /\ now = 0 /\ holder = Nil
NoPkg == pkg = Nil /\ local = Nil /\ remote = Nil

InitCodec ==
    /\ NoCall /\ NoLock /\ NoPkg
    /\ pc = "start"
    /\ t \in Types
    /\ obj \in ValuesOf(t)
    /\ jdict = Nil /\ matched = Nil /\ dec = Nil
    /\ old = Nil /\ new = Nil /\ old_schema = Nil /\ new_schema = Nil /\ bump = Nil

InitWire ==
    /\ NoCall /\ NoLock /\ NoPkg
    /\ pc = "wire"
    /\ t \in WireTypes
    /\ obj = Nil
    /\ jdict \in WireValues
    /\ matched = Nil /\ dec = Nil
    /\ old = Nil /\ new = Nil /\ old_schema = Nil /\ new_schema = Nil /\ bump = Nil

InitTypes ==
    /\ NoCall /\ NoLock /\ NoPkg
    /\ pc = "types"
    /\ old \in SchemaTypes /\ new \in SchemaTypes
    /\ old_schema = Nil /\ new_schema = Nil /\ bump = Nil
    /\ t = Nil /\ obj = Nil /\ jdict = Nil /\ matched = Nil /\ dec = Nil

InitComponent ==
    /\ NoCall /\ NoLock /\ NoPkg
    /\ pc = "component"
    /\ old = Nil /\ new = Nil
    /\ old_schema \in RequestSchemas \cup UnionSchemas
    /\ new_schema \in RequestSchemas \cup UnionSchemas
    /\ bump = Nil
    /\ t = Nil /\ obj = Nil /\ jdict = Nil /\ matched = Nil /\ dec = Nil

InitIface ==
    /\ NoCall /\ NoLock /\ NoPkg
    /\ pc = "iface"
    /\ old \in ApiClasses /\ new \in ApiClasses
    /\ old_schema = Nil /\ new_schema = Nil /\ bump = Nil
    /\ t = Nil /\ obj = Nil /\ jdict = Nil /\ matched = Nil /\ dec = Nil

InitIsCompatible ==
    /\ pc = "call"
    /\ args \in {[fn |-> "is_compatible", self |-> v, other |-> w] : v, w \in Versions}
    /\ ret = Nil
    /\ NoObj /\ NoLock /\ NoPkg

InitStr ==
    /\ pc = "call"
    /\ args \in {[fn |-> "__str__", self |-> v] : v \in TextVersions}
    /\ ret = Nil
    /\ NoObj /\ NoLock /\ NoPkg

InitMergeBump ==
    /\ pc = "call"
    /\ args \in {[fn |-> "merge_bump", old_bump |-> a, new_bump |-> b, next_bump |-> c] :
                    a, b, c \in Bumps}
    /\ ret = Nil
    /\ NoObj /\ NoLock /\ NoPkg

\* a served object: Object._lock is None until lock() is called
InitServing ==
    /\ pc = "serving"
    /\ _lock = PNone /\ now = 0 /\ holder = PNone
    /\ NoCall /\ NoObj /\ NoPkg

\* a Pkg instance for a directory of the local repository
InitPkg ==
    /\ pc = "pkg"
    /\ \E q \in Packages :
          /\ local = q.local
          /\ remote = q.remote
          /\ pkg = from_id(q.local.version)
    /\ NoCall /\ NoObj /\ NoLock

Init ==
    \/ InitCodec \/ InitWire \/ InitTypes \/ InitComponent \/ InitIface
    \/ InitIsCompatible \/ InitMergeBump \/ InitStr
    \/ InitServing \/ InitPkg

Encode ==
    /\ pc = "start"
    /\ jdict' = encode_any(obj, t)
    /\ pc' = IF IsRaise(encode_any(obj, t)) THEN "failed" ELSE "encoded"
    /\ UNCHANGED <<t, obj, matched, dec, old, new, old_schema, new_schema, bump>>
    /\ UNCHANGED <<callVars, lockVars, pkgVars>>

Match ==
    /\ pc \in {"encoded", "wire"}
    /\ matched' = json_is_type_match(t, jdict)
    /\ pc' = "matched"
    /\ UNCHANGED <<t, obj, jdict, dec, old, new, old_schema, new_schema, bump>>
    /\ UNCHANGED <<callVars, lockVars, pkgVars>>

Decode ==
    /\ pc = "matched"
    /\ dec' = decode_any(jdict, t)
    /\ pc' = "decoded"
    /\ UNCHANGED <<t, obj, jdict, matched, old, new, old_schema, new_schema, bump>>
    /\ UNCHANGED <<callVars, lockVars, pkgVars>>

BuildJsonSchema ==
    /\ pc = "types"
    /\ old_schema' = build_json_schema(old, PNone, TRUE)
    /\ new_schema' = build_json_schema(new, PNone, TRUE)
    /\ pc' = IF IsSchema(build_json_schema(old, PNone, TRUE))
                /\ IsSchema(build_json_schema(new, PNone, TRUE))
             THEN "component" ELSE "failed"
    /\ UNCHANGED <<t, obj, jdict, matched, dec, old, new, bump>>
    /\ UNCHANGED <<callVars, lockVars, pkgVars>>

CalcComponentBump ==
    /\ pc = "component"
    /\ bump' = calc_component_bump(old_schema, new_schema, VersionBump(NONE))
    /\ pc' = "bumped"
    /\ UNCHANGED <<t, obj, jdict, matched, dec, old, new, old_schema, new_schema>>
    /\ UNCHANGED <<callVars, lockVars, pkgVars>>

ObjApiSchema ==
    /\ pc = "iface"
    /\ old_schema' = obj_api_schema(old, TRUE)
    /\ new_schema' = obj_api_schema(new, TRUE)
    /\ pc' = IF Has(old_schema', "paths") /\ Has(new_schema', "paths")
             THEN "built" ELSE "failed"
    /\ UNCHANGED <<t, obj, jdict, matched, dec, old, new, bump>>
    /\ UNCHANGED <<callVars, lockVars, pkgVars>>

CalcSchemaBump ==
    /\ pc = "built"
    /\ bump' = calc_schema_bump(old_schema, new_schema)
    /\ pc' = "bumped"
    /\ UNCHANGED <<t, obj, jdict, matched, dec, old, new, old_schema, new_schema>>
    /\ UNCHANGED <<callVars, lockVars, pkgVars>>

IsCompatible ==
    /\ pc = "call" /\ args.fn = "is_compatible"
    /\ ret' = is_compatible(args.self, args.other)
    /\ pc' = "returned"
    /\ UNCHANGED <<objVars, args, lockVars, pkgVars>>

Str ==
    /\ pc = "call" /\ args.fn = "__str__"
    /\ ret' = Text(__str__(args.self))
    /\ pc' = "printed"
    /\ UNCHANGED <<objVars, args, lockVars, pkgVars>>

Parse ==
    /\ pc = "printed"
    /\ args' = [fn |-> "parse", s |-> ret, v |-> args.self]
    /\ ret' = parse(ret.v)
    /\ pc' = "returned"
    /\ UNCHANGED <<objVars, lockVars, pkgVars>>

MergeBump ==
    /\ pc = "call" /\ args.fn = "merge_bump"
    /\ ret' = merge_bump(args.old_bump, args.new_bump)
    /\ pc' = "returned"
    /\ UNCHANGED <<objVars, args, lockVars, pkgVars>>

\* a client calls lock(key, timeout)
LockRequest ==
    /\ pc = "serving"
    /\ \E c \in Clients, key \in Keys, timeout \in Timeouts :
          /\ args' = [fn |-> "lock", client |-> c, key |-> key, timeout |-> timeout]
          /\ IF IsRaise(lock(_lock, key, timeout, now))
             THEN /\ ret' = lock(_lock, key, timeout, now)
                  /\ UNCHANGED <<_lock, holder>>
             ELSE /\ _lock' = lock(_lock, key, timeout, now)
                  /\ holder' = PStr(c)
                  /\ ret' = PNone
    /\ UNCHANGED <<pc, now, objVars, pkgVars>>

\* a client calls unlock(key, force)
UnlockRequest ==
    /\ pc = "serving"
    /\ \E c \in Clients, key \in Keys, force \in BOOLEAN :
          /\ args' = [fn |-> "unlock", client |-> c, key |-> key, force |-> force]
          /\ IF IsRaise(unlock(_lock, key, force, now))
             THEN /\ ret' = unlock(_lock, key, force, now)
                  /\ UNCHANGED <<_lock, holder>>
             ELSE /\ _lock' = unlock(_lock, key, force, now)
                  /\ holder' = IF _lock' = PNone THEN PNone ELSE holder
                  /\ ret' = PNone
    /\ UNCHANGED <<pc, now, objVars, pkgVars>>

\* a request to a method that is not marked nolock: the generated handler
\* calls self._check_lock(headers) before the method
CheckedRequest ==
    /\ pc = "serving"
    /\ \E c \in Clients : \E headers \in HeadersOf(c) :
          /\ args' = [fn |-> "set", client |-> c, headers |-> headers]
          /\ ret' = IF IsRaise(_check_lock(_lock, headers, now))
                    THEN _check_lock(_lock, headers, now)
                    ELSE PNone
    /\ UNCHANGED <<pc, lockVars, objVars, pkgVars>>

\* a request to info, which is marked nolock: it reports _is_locked()
NolockRequest ==
    /\ pc = "serving"
    /\ \E c \in Clients :
          /\ args' = [fn |-> "info", client |-> c]
          /\ ret' = [k |-> "Info", locked |-> _is_locked(_lock, now)]
    /\ UNCHANGED <<pc, lockVars, objVars, pkgVars>>

\* time passes
Tick ==
    /\ pc = "serving"
    /\ now < MaxTime
    /\ now' = now + 1
    /\ UNCHANGED <<pc, _lock, holder, objVars, callVars, pkgVars>>

\* `with pkg.open(filepath, "w") as f: f.write(content)`
PkgOpen ==
    /\ pc = "pkg"
    /\ \E filepath \in FileNames, content \in Contents :
          /\ args' = [fn |-> "open", filepath |-> filepath, content |-> content]
          /\ local' = open(pkg, local, remote, filepath, content).local
          /\ ret' = open(pkg, local, remote, filepath, content).ret
    /\ UNCHANGED <<pc, pkg, remote, objVars, lockVars>>

\* pkg.release() and pkg.release(version)
PkgRelease ==
    /\ pc = "pkg"
    /\ \E version \in {PNone} \cup ExplicitVersions :
          /\ version = PNone /\ latest(remote) # PNone
                => latest(remote).major < MaxVersion /\ latest(remote).minor < MaxVersion
          /\ args' = [fn |-> "release", version |-> version]
          /\ pkg' = release(pkg, local, remote, version).pkg
          /\ local' = release(pkg, local, remote, version).local
          /\ remote' = release(pkg, local, remote, version).remote
          /\ ret' = release(pkg, local, remote, version).ret
    /\ UNCHANGED <<pc, objVars, lockVars>>

\* pkg.push()
PkgPush ==
    /\ pc = "pkg"
    /\ args' = [fn |-> "push"]
    /\ remote' = push(pkg, local, remote).remote
    /\ ret' = push(pkg, local, remote).ret
    /\ UNCHANGED <<pc, pkg, local, objVars, lockVars>>

\* Pkg.from_id for the directory the local repository holds
PkgFromId ==
    /\ pc = "pkg"
    /\ args' = [fn |-> "from_id", version |-> local.version]
    /\ pkg' = from_id(local.version)
    /\ ret' = PNone
    /\ UNCHANGED <<pc, local, remote, objVars, lockVars>>

Next ==
    \/ LockRequest
    \/ UnlockRequest
    \/ CheckedRequest
    \/ NolockRequest
    \/ Tick
    \/ PkgOpen
    \/ PkgRelease
    \/ PkgPush
    \/ PkgFromId
    \/ IsCompatible
    \/ MergeBump
    \/ Str
    \/ Parse
    \/ Encode
    \/ Match
    \/ Decode
    \/ BuildJsonSchema
    \/ CalcComponentBump
    \/ ObjApiSchema
    \/ CalcSchemaBump

Spec == Init /\ [][Next]_vars

TypeOK == pc \in {"start", "encoded", "wire", "matched", "decoded", "types", "component",
                  "iface", "built", "bumped", "failed", "call", "returned", "printed",
                  "serving", "pkg"}

\* ------------------------------------------------------------------------
\* Properties
\* ------------------------------------------------------------------------

\* C1: round trip. Every valid value obj of every type hint t is encoded
\* without error and decode_any(encode_any(obj, t), t) equals obj.
C1_RoundTrip ==
    (obj # Nil /\ pc \in {"decoded", "failed"}) => (pc = "decoded" /\ dec = obj)

\* C2: wire envelope. The result of a top-level encode_any is a JSON object,
\* and it is exactly {"value": <encoded>} whenever the encoded value is not
\* itself an object (null included).
C2_Envelope ==
    (obj # Nil /\ pc = "encoded") =>
        /\ jdict.k = "dict"
        /\ _encode_any(obj, t).k # "dict" => jdict = PDict(<<Item("value", _encode_any(obj, t))>>)

\* C3: union decode. decode_any(v, Union) decodes v with the first variant in
\* declared order that the matcher accepts; a variant the matcher does not
\* accept is skipped, and the only failure is "no type matched" when no
\* variant is accepted.
C3_UnionDecode ==
    (pc = "decoded" /\ t # Nil /\ is_union(t)) =>
        LET v == Unwrap(jdict)
            accepts(i) == json_is_type_match(t.args[i], v) = PBool(TRUE)
        IN IF \E i \in 1..Len(t.args) : accepts(i)
           THEN LET first == CHOOSE i \in 1..Len(t.args) :
                                 accepts(i) /\ \A j \in 1..(i - 1) : ~accepts(j)
                IN dec = decode_any(v, t.args[first]) /\ ~IsRaise(dec)
           ELSE dec = Raise("ValueError", "No type matched JSON")

\* C4: union encode. encode_any(x, Union) encodes a value x that is valid for
\* the union with the first variant in declared order that x satisfies, and
\* does not fail.
C4_UnionEncode ==
    (obj # Nil /\ is_union(t) /\ pc \in {"encoded", "failed"}) =>
        LET first == CHOOSE i \in 1..Len(t.args) :
                         /\ obj \in ValuesOf(t.args[i])
                         /\ \A j \in 1..(i - 1) : obj \notin ValuesOf(t.args[j])
        IN pc = "encoded" /\ jdict = encode_any(obj, t.args[first])

\* C5: the matcher does not conflate primitive kinds. For a primitive type
\* hint of kind k, json_is_type_match is true exactly of the wire values of
\* kind k.
C5_PrimitiveKinds ==
    (pc = "matched" /\ obj = Nil /\ is_first_order(t)) => matched = PBool(jdict.k = t.p)

\* C6: self-diff is NONE. Comparing a schema (or an interface document) with
\* itself returns VersionBump.NONE and raises no error.
C6_SelfDiffNone ==
    (pc = "bumped" /\ old_schema = new_schema) => bump = VersionBump(NONE)

\* C7: the interface bump is never below the bump of any check of the pass:
\* a removed path or action is MAJOR, an added path or action is MINOR, and a
\* shared path contributes the diff of its request schemas.
C7_InterfaceBumpIsMax ==
    (pc = "bumped" /\ Has(old_schema, "paths") /\ bump.k = "VersionBump") =>
        LET old_paths == old_schema["paths"]
            new_paths == new_schema["paths"]
        IN /\ \A i \in 1..Len(old_paths) :
                  IF ~HasPath(new_paths, old_paths[i].path) THEN bump.v >= MAJOR
                  ELSE \A j \in 1..Len(old_paths[i].actions) :
                      LET a == old_paths[i].actions[j]
                          new_actions == GetPath(new_paths, old_paths[i].path)
                      IN IF ~HasAction(new_actions, a.action) THEN bump.v >= MAJOR
                         ELSE LET r == calc_component_bump(a.schema,
                                           GetAction(new_actions, a.action), VersionBump(NONE))
                              IN r.k = "VersionBump" => bump.v >= r.v
           /\ \A i \in 1..Len(new_paths) :
                  IF ~HasPath(old_paths, new_paths[i].path) THEN bump.v >= MINOR
                  ELSE \A j \in 1..Len(new_paths[i].actions) :
                      ~HasAction(GetPath(old_paths, new_paths[i].path),
                                 new_paths[i].actions[j].action) => bump.v >= MINOR

\* C8: an added property is MINOR. For object schemas where every old
\* property is kept unchanged, the required lists are equal and the new
\* schema has a property the old one lacks, the bump is MINOR.
C8_AddedPropertyMinor ==
    (/\ pc = "bumped" /\ Has(old_schema, "properties") /\ Has(new_schema, "properties")
     /\ \A i \in 1..Len(old_schema["properties"]) :
            /\ HasProp(new_schema["properties"], old_schema["properties"][i].nm)
            /\ GetProp(new_schema["properties"], old_schema["properties"][i].nm)
                   = old_schema["properties"][i].sch
     /\ Has(old_schema, "required") = Has(new_schema, "required")
     /\ Has(old_schema, "required") => old_schema["required"] = new_schema["required"]
     /\ \E i \in 1..Len(new_schema["properties"]) :
            ~HasProp(old_schema["properties"], new_schema["properties"][i].nm))
    => bump = VersionBump(MINOR)

\* C9: required-to-optional is PATCH. For object schemas with identical
\* properties where a name of old.required is no longer required (new.required
\* omits it or new has no "required" key) and no name became required, the
\* bump is PATCH.
C9_RequiredToOptionalPatch ==
    (/\ pc = "bumped" /\ Has(old_schema, "properties") /\ Has(new_schema, "properties")
     /\ old_schema["properties"] = new_schema["properties"]
     /\ Has(old_schema, "required")
     /\ \E i \in 1..Len(old_schema["required"]) :
            ~Has(new_schema, "required")
            \/ ~InSeq(old_schema["required"][i], new_schema["required"])
     /\ Has(new_schema, "required") =>
            \A i \in 1..Len(new_schema["required"]) :
                InSeq(new_schema["required"][i], old_schema["required"]))
    => bump = VersionBump(PATCH)

\* C10: a type change is MAJOR. Two schemas whose "type" values differ, or
\* two object schemas that share a property whose "type" values differ,
\* compare as MAJOR.
C10_TypeChangeMajor ==
    (/\ pc = "bumped" /\ Has(old_schema, "type") /\ Has(new_schema, "type")
     /\ \/ old_schema["type"] # new_schema["type"]
        \/ /\ Has(old_schema, "properties") /\ Has(new_schema, "properties")
           /\ \E i \in 1..Len(old_schema["properties"]) :
                  LET p == old_schema["properties"][i]
                  IN /\ HasProp(new_schema["properties"], p.nm)
                     /\ Has(p.sch, "type")
                     /\ Has(GetProp(new_schema["properties"], p.nm), "type")
                     /\ p.sch["type"] # GetProp(new_schema["properties"], p.nm)["type"])
    => bump = VersionBump(MAJOR)

\* the set of the elements of a sequence
Range(seq) == {seq[i] : i \in 1..Len(seq)}
\* a sequence of distinct names is in the order sorted() gives
IsSortedNames(names) == SortedNames(Range(names)) = names

\* C11: schema build is insensitive to union variant order. For two unions
\* with the same set of variants declared in different orders,
\* build_json_schema (sort = True) succeeds on both and returns equal schemas
\* with one oneOf arm per declared variant.
C11_UnionOrderInsensitive ==
    (/\ pc \in {"component", "failed"} /\ Has(old, "k") /\ Has(new, "k")
     /\ is_union(old) /\ is_union(new) /\ ~is_optional(old) /\ ~is_optional(new)
     /\ old # new /\ Range(old.args) = Range(new.args))
    => /\ pc = "component"
       /\ old_schema = new_schema
       /\ Has(old_schema, "oneOf") /\ Len(old_schema["oneOf"]) = Len(old.args)

\* C12: schema build is deterministic and insensitive to record field order.
\* For two records with the same fields declared in any order (the same
\* record included), build_json_schema (sort = True) returns equal schemas
\* whose "properties" keys and "required" list are in sorted name order.
C12_FieldOrderInsensitive ==
    (/\ pc \in {"component", "failed"} /\ Has(old, "k") /\ Has(new, "k")
     /\ old.k = "class" /\ new.k = "class"
     /\ Range(old.annots) = Range(new.annots))
    => /\ pc = "component"
       /\ old_schema = new_schema
       /\ IsSortedNames([i \in 1..Len(old_schema["properties"]) |->
                            old_schema["properties"][i].nm])
       /\ Has(old_schema, "required") => IsSortedNames(old_schema["required"])

\* C13: required iff not Optional. In the object schema built for a record,
\* a field name is in "required" if and only if the field's type hint is not
\* Optional.
C13_RequiredIffNotOptional ==
    (pc = "component" /\ Has(old, "k") /\ old.k = "class") =>
        \A i \in 1..Len(old.annots) :
            (Has(old_schema, "required") /\ InSeq(old.annots[i].nm, old_schema["required"]))
                <=> ~is_optional(old.annots[i].typ)

\* a field of a Version is unset: None, or the empty string
IsUnset(x) == x = PNone \/ x = PStr("")

\* C14: version compatibility. self.is_compatible(other) is true if and only
\* if the interfaces are equal, self.logic is unset or equals other.logic, and
\* self.state is unset or equals other.state; so it is reflexive, and a
\* bare-interface version is compatible with every version of its interface.
C14_IsCompatible ==
    (pc = "returned" /\ args.fn = "is_compatible") =>
        /\ ret = PBool(/\ args.self.interface = args.other.interface
                       /\ (IsUnset(args.self.logic) \/ args.self.logic = args.other.logic)
                       /\ (IsUnset(args.self.state) \/ args.self.state = args.other.state))
        /\ args.self = args.other => ret = PBool(TRUE)
        /\ (/\ args.self.logic = PNone /\ args.self.state = PNone
            /\ args.self.interface = args.other.interface) => ret = PBool(TRUE)

\* C14 witness: a bare-interface version was found compatible with a version
\* that has the same interface and a logic hash.
C14_Witness ==
    /\ pc = "returned" /\ args.fn = "is_compatible"
    /\ args.self.logic = PNone /\ args.self.state = PNone
    /\ args.other.logic = PStr("a") /\ ret = PBool(TRUE)

\* C17: merge_bump is the maximum of NONE < PATCH < MINOR < MAJOR. The merge
\* of a and b is one of a, b and is at least a and at least b; it is
\* commutative, associative and idempotent.
C17_MergeIsMax ==
    (pc = "returned" /\ args.fn = "merge_bump") =>
        LET a == args.old_bump
            b == args.new_bump
            c == args.next_bump
        IN /\ ret \in {a, b} /\ ret.v >= a.v /\ ret.v >= b.v
           /\ merge_bump(b, a) = ret
           /\ merge_bump(ret, c) = merge_bump(a, merge_bump(b, c))
           /\ merge_bump(a, a) = a

\* C17 witness: a merge has kept the old bump, which was above the new one.
C17_Witness ==
    /\ pc = "returned" /\ args.fn = "merge_bump"
    /\ args.old_bump.v = MAJOR /\ args.new_bump.v = PATCH /\ ret = args.old_bump

\* C15: enum wire form. Encoding a member of an Enum yields the member's
\* value and never its label, at top level {"value": member.value}, and
\* decoding that wire value against the same Enum returns the member.
C15_EnumWireForm ==
    (obj # Nil /\ is_enum(t) /\ pc \in {"encoded", "matched", "decoded", "failed"}) =>
        /\ pc # "failed"
        /\ _encode_any(obj, t) = obj.value
        /\ jdict = PDict(<<Item("value", obj.value)>>)
        /\ jdict # PDict(<<Item("value", PStr(obj.label))>>)
        /\ pc = "decoded" => dec = obj

\* C15 witness: a member whose value is a string was encoded and decoded.
C15_Witness ==
    /\ pc = "decoded" /\ t = EnumStrs /\ obj = PEnum("EnumStrs", "BLUE", PStr("b"))
    /\ jdict = PDict(<<Item("value", PStr("b"))>>) /\ dec = obj

\* C16: Optional null round trip. For an Optional type hint, encoding None
\* yields the wire value null, and decoding null against the same type hint
\* returns None and raises nothing.
C16_OptionalNull ==
    (/\ obj = PNone /\ t.k = "Union" /\ NoneType \in Range(t.args)
     /\ pc \in {"encoded", "matched", "decoded", "failed"}) =>
        /\ pc # "failed"
        /\ jdict = PNone
        /\ pc = "decoded" => dec = PNone

\* C16 witness: None was encoded to null and decoded against Optional[int].
C16_Witness ==
    pc = "decoded" /\ t = OptionalT(int) /\ obj = PNone /\ jdict = PNone /\ dec = PNone

\* C20: envelope unwrap is exact. A wire object that has the key "value"
\* together with other keys is decoded as it stands: the encoding of a value
\* decodes to that value, and a map payload that matches a map of primitives
\* decodes to itself.
C20_UnwrapExact ==
    (/\ pc = "decoded" /\ jdict.k = "dict"
     /\ HasKey(jdict.items, "value") /\ Len(jdict.items) > 1) =>
        /\ obj # Nil => dec = obj
        /\ (/\ obj = Nil /\ is_dict(t) /\ is_first_order(get_args(t)[2])
            /\ MatchItems(get_args(t), jdict.items, 1) = PBool(TRUE)) => dec = jdict

\* C19: after lock() succeeds and until the lock is removed or expires, every
\* lock-checked request carrying a client-uuid other than the lock holder's is
\* rejected with an error, for every value of the key argument, the default
\* key=None included; requests to methods marked nolock are still served.
C19_LockExclusivity ==
    (pc = "serving" /\ args # Nil) =>
        /\ (/\ args.fn = "set"
            /\ _is_locked(_lock, now)
            /\ HasKey(args.headers, "client-uuid")
            /\ GetKey(args.headers, "client-uuid") # holder) => IsRaise(ret)
        /\ (args.fn = "info") => ~IsRaise(ret)

\* the files of directory l extend the released hashes base by a new file and
\* change none of the released files
OnlyAdded(l, base) ==
    /\ \E i \in 1..Len(l.files) :
          l.files[i].key # INFO_FILE /\ ~HasKey(base.items, l.files[i].key)
    /\ \A i \in 1..Len(l.files) :
          HasKey(base.items, l.files[i].key)
              => hash_file(l.files[i].val) = GetKey(base.items, l.files[i].key)

\* a released file has another content in directory l
SomeChanged(l, base) ==
    \E i \in 1..Len(l.files) :
        /\ HasKey(base.items, l.files[i].key)
        /\ hash_file(l.files[i].val) # GetKey(base.items, l.files[i].key)

\* the call returned, the package carries the version, and latest() returns it
ReleasedAs(version) ==
    /\ ~IsRaise(ret')
    /\ pkg'._id = version
    /\ latest(remote') = version

Accepts(ty, v) == json_is_type_match(ty, v) = PBool(TRUE)

\* a payload was matched against t: the codec and the wire sequence, after Match
Matched == pc \in {"matched", "decoded"} /\ t # Nil

\* C21: matcher, record. json_is_type_match(record, v) is true if and only if
\* v is an object and every declared field is present in v with a value that
\* matches the field's type hint; undeclared keys do not change the result,
\* and an absent declared field gives false, not an error.
C21_RecordMatch ==
    (Matched /\ t.k = "class") =>
        matched = PBool(/\ jdict.k = "dict"
                        /\ \A i \in 1..Len(t.annots) :
                              /\ HasKey(jdict.items, t.annots[i].nm)
                              /\ Accepts(t.annots[i].typ, GetKey(jdict.items, t.annots[i].nm)))

\* C22: matcher, tuple. For a wire sequence v, json_is_type_match(tuple, v)
\* is true if and only if v has one element per element type hint and each
\* v[i] matches the i-th type hint; ["a", 1] matches (str, int), and a
\* sequence of another length does not match.
C22_TupleMatch ==
    (Matched /\ is_tuple(t) /\ jdict.k \in {"list", "tuple"}) =>
        matched = PBool(/\ Len(jdict.xs) = Len(t.args)
                        /\ \A i \in 1..Len(t.args) : Accepts(t.args[i], jdict.xs[i]))

\* C23: matcher, union and optional. Where the matcher answers for every
\* variant, json_is_type_match(union, v) is true if and only if at least one
\* variant matches v, whatever the arity of the union and the position of
\* the null variant.
C23_UnionMatch ==
    (/\ Matched /\ is_union(t)
     /\ \A i \in 1..Len(t.args) : ~IsRaise(json_is_type_match(t.args[i], jdict)))
    => matched = PBool(\E i \in 1..Len(t.args) : Accepts(t.args[i], jdict))

\* C24: matcher, Any. json_is_type_match(Any, v) is true of every wire value
\* v, null included.
C24_AnyMatch ==
    (Matched /\ t = Any) => matched = PBool(TRUE)

\* a payload that is a JSON object and not an envelope was decoded as a record
DecodedRecord ==
    /\ pc = "decoded" /\ t # Nil /\ t.k = "class"
    /\ jdict.k = "dict" /\ ~HasKey(jdict.items, "value")

\* C25: missing field on decode. Decoding an object against a record fails
\* with an error whenever a declared field that is not Optional is absent
\* from the object; no record lacking such a field is returned.
C25_MissingField ==
    (/\ DecodedRecord
     /\ \E i \in 1..Len(t.annots) :
            ~is_optional(t.annots[i].typ) /\ ~HasKey(jdict.items, t.annots[i].nm))
    => IsRaise(dec)

\* C26: extra wire fields on decode. Decoding an object that carries every
\* declared field and a key the record does not declare succeeds: the result
\* has the declared fields, decoded as usual, and not the undeclared key.
C26_ExtraField ==
    (/\ DecodedRecord
     /\ \A i \in 1..Len(t.annots) :
            /\ HasKey(jdict.items, t.annots[i].nm)
            /\ Accepts(t.annots[i].typ, GetKey(jdict.items, t.annots[i].nm))
     /\ \E j \in 1..Len(jdict.items) :
            \A i \in 1..Len(t.annots) : t.annots[i].nm # jdict.items[j].key)
    => /\ dec.k = "obj" /\ dec.cls = t.name
       /\ Range(dec.items) =
              {Item(t.annots[i].nm,
                    decode_any(GetKey(jdict.items, t.annots[i].nm), t.annots[i].typ)) :
                  i \in 1..Len(t.annots)}

\* two schemas were compared by calc_component_bump
Bumped == pc = "bumped" /\ IsSchema(old_schema) /\ IsSchema(new_schema)

\* the "format" of a schema, None where the schema has none
FormatOf(schema) == IF Has(schema, "format") THEN schema.format ELSE "None"

\* C27: scalar format change. For two scalar schemas of the same type whose
\* "format" differs, a format present on one side only included,
\* calc_component_bump returns MAJOR and raises no error.
C27_FormatChange ==
    (/\ Bumped
     /\ ~Has(old_schema, "oneOf") /\ ~Has(new_schema, "oneOf")
     /\ Has(old_schema, "type") /\ Has(new_schema, "type")
     /\ old_schema.type \in FIRST_ORDER_SCHEMA
     /\ old_schema.type = new_schema.type
     /\ FormatOf(old_schema) # FormatOf(new_schema))
    => bump = VersionBump(MAJOR)

\* C28: oneOf rules. Where the old schema has "oneOf" and the new one does
\* not, calc_component_bump returns MAJOR; where the new schema has "oneOf"
\* and the old one does not, it returns PATCH and raises no error.
C28_OneOf ==
    Bumped =>
        /\ (Has(old_schema, "oneOf") /\ ~Has(new_schema, "oneOf"))
               => bump = VersionBump(MAJOR)
        /\ (Has(new_schema, "oneOf") /\ ~Has(old_schema, "oneOf"))
               => bump = VersionBump(PATCH)

\* C29: version string round trip. For every version in hash form and every
\* version in semver form, a state being given only with a logic,
\* Version.parse(str(v)) succeeds and equals v.
C29_ParseStr ==
    (pc = "returned" /\ args.fn = "parse") => ret = args.v

\* an unexpired lock exists
Live == _lock # PNone /\ ~is_expired(_lock, now)

\* the step is a call of lock(): the only steps that leave a lock request in
\* args without moving the clock
LockCalled == pc' = "serving" /\ args' # Nil /\ args'.fn = "lock" /\ now' = now

\* C30: at most one live lock. lock() called while an unexpired lock exists
\* raises SystemError and leaves the existing lock unchanged; lock() succeeds
\* and installs a new lock, created now with the key and timeout of the call,
\* if and only if no lock exists or the existing one has expired; and a lock
\* appears in _lock only by a successful lock(), so the lock in place is the
\* one of the last successful call.
C30_OneLiveLock ==
    [][/\ (LockCalled /\ Live) =>
              /\ IsRaise(ret') /\ ret'.exc = "SystemError"
              /\ _lock' = _lock
       /\ (LockCalled /\ ~Live) =>
              /\ ret' = PNone
              /\ _lock' = Lock(now, args'.key, args'.timeout)
       /\ (_lock' # _lock /\ _lock' # PNone /\ _lock' # Nil) =>
              /\ LockCalled /\ ~Live /\ ret' = PNone]_vars

\* a client's lock() was rejected while another client's lock, one that has a
\* timeout and has not yet expired, is in place
C30_Witness ==
    /\ pc = "serving" /\ args # Nil /\ args.fn = "lock"
    /\ IsRaise(ret) /\ ret.exc = "SystemError"
    /\ Live /\ _lock.timeout # PNone
    /\ holder # PStr(args.client)

====
